---- MODULE Spec2Model ----
(***************************************************************************)
(* RepDoctor2: branch classification (GitHubClient.classify_branch), the   *)
(* per-repository scan (scan_repo) and the aggregate scan held by the      *)
(* Flask application (app.scan, app.repo_detail, app.analyze_branch_route).*)
(*                                                                         *)
(* Time is counted in ticks of 1/TicksPerDay day.  A last-commit date is a *)
(* record [form, tz, t]: form says what kind of value the argument is      *)
(* (None, the empty string, a string that is no ISO-8601 timestamp, or an  *)
(* ISO-8601 timestamp), tz is the timestamp's zone designator as written   *)
(* ("Z", "+00:00", or "" for none) and t the instant it names.             *)
(***************************************************************************)
EXTENDS Integers, Sequences, FiniteSets, TLC

VARIABLES
    now,               \* datetime.datetime.now(datetime.timezone.utc), in ticks
    comparison,        \* classify_branch argument: the comparison dict
    last_commit_date,  \* classify_branch argument
    has_pr,            \* classify_branch argument
    result,            \* what the last classify_branch call gave
    result_at,         \* the clock reading of that call
    sr_in,             \* scan_repo arguments: the repo dict and what GitHub answers
    sr_out,            \* what the scan_repo call gave
    scan_run,          \* where the POST /scan request being handled has got to
    authenticated,     \* session["authenticated"], per browser session
    github_client,     \* app._github_client
    credentials,       \* app._credentials
    scan_results,      \* app._scan_results
    scan_history,      \* data/scan_history.json: the "scans" list
    analysis_cache,    \* data/analysis_cache.json
    action_log,        \* data/action_log.json: the "actions" list
    session_cost,      \* app._session_cost
    preferences,       \* config/preferences.json, as get_preferences reads it
    credentials_file,  \* config/credentials.enc
    response,          \* what the last request was answered with
    call_out           \* the last direct call of a security.py or models.py function, and what it gave

cvars == <<comparison, last_commit_date, has_pr, result, result_at>>
srvars == <<sr_in, sr_out, scan_run>>
authvars == <<authenticated, github_client, credentials>>
datavars == <<scan_results, scan_history, analysis_cache, action_log,
              session_cost, preferences>>
avars == <<authvars, datavars, credentials_file, response, call_out>>
vars == <<now, cvars, srvars, avars>>
envvars == <<now, cvars, srvars, call_out>>

----------------------------------------------------------------------------
(* Bounds of the model *)

MaxCount == 2       \* ahead_by, behind_by range over 0..MaxCount
MaxDateT == 3       \* commit instants range over 0..MaxDateT ticks
MaxTicks == 4       \* the clock advances at most MaxTicks ticks
TicksPerDay == 2    \* clock resolution: ticks per day
MaxBranches == 3    \* a branch listing holds at most MaxBranches entries
MaxScans == 2       \* scan requests that reach GitHub's repository listing
MaxAnalyses == 2    \* analyze requests that reach the AI call
MaxSaves == 52
MaxPages == 3       \* page requests answered in one listing
MaxListPages == 2   \* pages with items in one listing of a scan followed step by step
MaxActions == 2     \* requests that write to the action log: none once it has this many entries

(* Program constants *)

HistoryKeep == 50
MinPassword == 4
PerPage == 100      \* per_page of the listing requests

StaleDays == 30

----------------------------------------------------------------------------
(* Values *)

None == [form |-> "None", tz |-> "", t |-> 0]
EmptyStr == [form |-> "empty", tz |-> "", t |-> 0]
Junk == [form |-> "junk", tz |-> "", t |-> 0]

\* The clock starts exactly StaleDays after instant 0, so that commit
\* instants 0..MaxDateT give ages on both sides of the threshold.
ClockStart == StaleDays * TicksPerDay
ClockEnd == ClockStart + MaxTicks + TicksPerDay
FarFuture == ClockEnd + TicksPerDay

Instants == (0 .. MaxDateT) \cup {FarFuture}

IsoDates == [form : {"iso"}, tz : {"Z", "+00:00", ""}, t : Instants]

Dates == {None, EmptyStr, Junk} \cup IsoDates

Keys == {"ahead_by", "behind_by"}

Counts == 0 .. MaxCount

\* a comparison dict may lack either key
ClassifyComparisons == UNION {[D -> Counts] : D \in SUBSET Keys}

Labels == {"ACTIVE PR", "SAFE TO DELETE", "STALE", "DIVERGED", "AHEAD ONLY"}

NotCalled == "not called"

----------------------------------------------------------------------------
(* GitHubClient.classify_branch *)

\* dict.get(key, default)
Get(d, k, default) == IF k \in DOMAIN d THEN d[k] ELSE default

\* Python truthiness of a str | None
Truthy(s) == s.form \notin {"None", "empty"}

\* str.replace("Z", "+00:00")
ReplaceZ(s) == IF s.tz = "Z" THEN [s EXCEPT !.tz = "+00:00"] ELSE s

\* datetime.fromisoformat: ValueError unless the string is an ISO-8601
\* timestamp with a numeric offset or none (a literal "Z" is refused before
\* Python 3.11, which is why the caller replaces it)
fromisoformat(s) ==
    IF s.form = "iso" /\ s.tz \in {"+00:00", ""}
    THEN [exc |-> "none", aware |-> s.tz # "", t |-> s.t]
    ELSE [exc |-> "ValueError", aware |-> FALSE, t |-> 0]

\* (mutant) the age rounded up to whole days instead of down
DaysSinceCeil(last_dt) ==
    IF ~last_dt.aware
    THEN [exc |-> "TypeError", days |-> 0]
    ELSE [exc |-> "none",
          days |-> ((now - last_dt.t) + TicksPerDay - 1) \div TicksPerDay]

\* (now - last_dt).days: subtracting a naive datetime from an aware one is
\* a TypeError; timedelta.days is the floor of the difference in days
DaysSince(last_dt) ==
    IF ~last_dt.aware
    THEN [exc |-> "TypeError", days |-> 0]
    ELSE [exc |-> "none", days |-> (now - last_dt.t) \div TicksPerDay]

\* (mutant) except ValueError: pass
CaughtValueErrorOnly == {"ValueError"}

\* except (ValueError, TypeError): pass
Caught == {"ValueError", "TypeError"}

\* (mutant) .days >= 30 instead of .days > 30
StalenessRuleGe(date, ahead) ==
    IF ~Truthy(date) THEN "pass"
    ELSE LET last_dt == fromisoformat(ReplaceZ(date)) IN
         IF last_dt.exc # "none"
         THEN (IF last_dt.exc \in Caught THEN "pass" ELSE last_dt.exc)
         ELSE LET d == DaysSince(last_dt) IN
              IF d.exc # "none"
              THEN (IF d.exc \in Caught THEN "pass" ELSE d.exc)
              ELSE IF d.days >= StaleDays /\ ahead > 0 THEN "STALE" ELSE "pass"

\* lines 172-179: "STALE", "pass" (rule skipped) or the exception that escapes
StalenessRule(date, ahead) ==
    IF ~Truthy(date) THEN "pass"
    ELSE LET last_dt == fromisoformat(ReplaceZ(date)) IN
         IF last_dt.exc # "none"
         THEN (IF last_dt.exc \in Caught THEN "pass" ELSE last_dt.exc)
         ELSE LET d == DaysSince(last_dt) IN
              IF d.exc # "none"
              THEN (IF d.exc \in Caught THEN "pass" ELSE d.exc)
              ELSE IF d.days > StaleDays /\ ahead > 0 THEN "STALE" ELSE "pass"

\* the rules after the pull-request and merged checks, shared by the mutants
LaterRules(date, ahead, behind) ==
    LET st == StalenessRule(date, ahead) IN
    IF st = "STALE" THEN "STALE"
    ELSE IF st # "pass" THEN st
    ELSE IF ahead > 0 /\ behind > 0 THEN "DIVERGED"
    ELSE "AHEAD ONLY"

\* (mutant) the merged check made before the pull-request check
classify_branch_merged_first(cmp, date, pr) ==
    LET ahead == Get(cmp, "ahead_by", 0)
        behind == Get(cmp, "behind_by", 0)
    IN  IF ahead = 0 THEN "SAFE TO DELETE"
        ELSE IF pr THEN "ACTIVE PR"
        ELSE LaterRules(date, ahead, behind)

\* (mutant) merged only when the branch is neither ahead nor behind
classify_branch_identical_only(cmp, date, pr) ==
    LET ahead == Get(cmp, "ahead_by", 0)
        behind == Get(cmp, "behind_by", 0)
    IN  IF pr THEN "ACTIVE PR"
        ELSE IF ahead = 0 /\ behind = 0 THEN "SAFE TO DELETE"
        ELSE LaterRules(date, ahead, behind)

\* (mutant) the ahead-only check made before the diverged check
classify_branch_ahead_first(cmp, date, pr) ==
    LET ahead == Get(cmp, "ahead_by", 0)
    IN  IF pr THEN "ACTIVE PR"
        ELSE IF ahead = 0 THEN "SAFE TO DELETE"
        ELSE LET st == StalenessRule(date, ahead) IN
             IF st = "STALE" THEN "STALE"
             ELSE IF st # "pass" THEN st
             ELSE "AHEAD ONLY"

classify_branch(cmp, date, pr) ==
    LET ahead == Get(cmp, "ahead_by", 0)
        behind == Get(cmp, "behind_by", 0)
    IN  IF pr THEN "ACTIVE PR"
        ELSE IF ahead = 0 THEN "SAFE TO DELETE"
        ELSE LET st == StalenessRule(date, ahead) IN
             IF st = "STALE" THEN "STALE"
             ELSE IF st # "pass" THEN st
             ELSE IF ahead > 0 /\ behind > 0 THEN "DIVERGED"
             ELSE IF ahead > 0 /\ behind = 0 THEN "AHEAD ONLY"
             ELSE "AHEAD ONLY"

----------------------------------------------------------------------------
(* What GitHub answers.  A request ends with status 200 and a body, with   *)
(* another status, or with no response at all (requests raises).           *)

Resp200(body) == [outcome |-> "200", body |-> body]
RespNot200(blank) == [outcome |-> "not 200", body |-> blank]
NoResponse(blank) == [outcome |-> "transport error", body |-> blank]

\* a function's result: a value, or the exception it raised
Ok(v) == [value |-> v]
Raise(e) == [raised |-> e]
Raised(x) == "raised" \in DOMAIN x
Pending == [pending |-> TRUE]      \* the call has not been made

NoneCmp == [is_none |-> TRUE]        \* compare_branches returned None
NoAuthor == "<no author>"            \* commit["author"] is null or missing
NoCommitter == [form |-> "no committer", tz |-> "", t |-> 0]
AuthorNone == "<None>"               \* last_commit_author = None

BlankCmp == [ahead_by |-> 0, behind_by |-> 0, commits |-> <<>>]

\* a commit instant that is not stale at the scans' clock reading (instant 0 is)
RecentInstant == MaxDateT

Commit(author, committer) == [author |-> author, committer |-> committer]

\* comparisons the scans are run on
Merged == [ahead_by |-> 0, behind_by |-> 1, commits |-> <<>>]
Fresh ==
    [ahead_by |-> 1, behind_by |-> 0,
     commits |-> <<Commit("ann", [form |-> "iso", tz |-> "Z", t |-> RecentInstant])>>]
OldDiverged ==
    [ahead_by |-> 2, behind_by |-> 1,
     commits |-> <<Commit("ann", [form |-> "iso", tz |-> "Z", t |-> RecentInstant]),
                   Commit(NoAuthor, [form |-> "iso", tz |-> "+00:00", t |-> 0])>>]
\* one unique commit, whose "committer" is null
Uncommitted == [ahead_by |-> 1, behind_by |-> 0, commits |-> <<Commit("ann", NoCommitter)>>]

\* A name (of a branch, a repository, an owner, a sha) is the sequence of
\* its "/"-separated segments, so that joining names with "/" is
\* concatenation.
Str(x) == <<x>>

BranchNames == {Str("main"), Str("dev"), Str("fix")}

----------------------------------------------------------------------------
(* GitHubClient: requests *)

\* get_repos / get_branches / get_tags: pages is what the successive page
\* requests are answered with; past the last of them the answer is an
\* empty batch
\* (mutant) a non-success page empties the listing
RECURSIVE PaginateDiscarding(_, _, _)
PaginateDiscarding(pages, page, acc) ==
    IF page > Len(pages) THEN Ok(acc)
    ELSE LET resp == pages[page] IN
         IF resp.outcome = "transport error" THEN Raise("ConnectionError")
         ELSE IF resp.outcome # "200" THEN Ok(<<>>)
         ELSE IF resp.body = <<>> THEN Ok(acc)
         ELSE PaginateDiscarding(pages, page + 1, acc \o resp.body)

RECURSIVE Paginate(_, _, _)
Paginate(pages, page, acc) ==
    IF page > Len(pages) THEN Ok(acc)
    ELSE LET resp == pages[page] IN
         IF resp.outcome = "transport error" THEN Raise("ConnectionError")
         ELSE IF resp.outcome # "200" THEN Ok(acc)
         ELSE IF resp.body = <<>> THEN Ok(acc)
         ELSE Paginate(pages, page + 1, acc \o resp.body)

get_repos(pages) == Paginate(pages, 1, <<>>)
get_branches(pages) == Paginate(pages, 1, <<>>)
get_tags(pages) == Paginate(pages, 1, <<>>)

compare_branches(resp) ==
    IF resp.outcome = "transport error" THEN Raise("ConnectionError")
    ELSE IF resp.outcome = "200" THEN Ok(resp.body)
    ELSE Ok(NoneCmp)

get_pulls(resp) ==
    IF resp.outcome = "transport error" THEN Raise("ConnectionError")
    ELSE IF resp.outcome = "200" THEN Ok(resp.body)
    ELSE Ok(<<>>)

check_claude_md(resp) ==
    IF resp.outcome = "transport error" THEN Raise("ConnectionError")
    ELSE Ok(resp.outcome = "200")

----------------------------------------------------------------------------
(* scan_repo *)

\* commit["author"]["name"] if commit.get("author") else "Unknown"
AuthorOf(c) == IF c.author # NoAuthor THEN c.author ELSE "Unknown"

\* lines 233-240; the sha prefix and the message's first line are left out
commit_messages(commits) ==
    [i \in DOMAIN commits |->
        [author |-> AuthorOf(commits[i]),
         date |-> IF commits[i].committer # NoCommitter
                  THEN commits[i].committer ELSE None]]

\* lines 210-253: the record of one branch whose comparison was fetched;
\* files_changed is left out
BranchRecord(branch, cmp, pr_branches) ==
    LET commits == Get(cmp, "commits", <<>>)
        some == Len(commits) > 0
        last_commit == commits[Len(commits)]
    IN  IF some /\ last_commit.committer = NoCommitter
        THEN Raise("TypeError")
        ELSE LET date == IF some THEN last_commit.committer ELSE None
                 author == IF some THEN AuthorOf(last_commit) ELSE AuthorNone
                 pr == branch.name \in pr_branches
                 classification == classify_branch(cmp, date, pr)
             IN  IF classification \notin Labels
                 THEN Raise(classification)
                 ELSE Ok([name |-> branch.name,
                          classification |-> classification,
                          ahead_by |-> Get(cmp, "ahead_by", 0),
                          behind_by |-> Get(cmp, "behind_by", 0),
                          last_commit_date |-> date,
                          last_commit_author |-> author,
                          has_pr |-> pr,
                          commit_sha |-> branch.sha,
                          commit_messages |-> commit_messages(commits)])

\* (mutant) lines 201-253 without the default-branch test of line 203
RECURSIVE ScanBranchesNoSkip(_, _, _, _)
ScanBranchesNoSkip(listing, default_branch, pr_branches, branch_data) ==
    IF listing = <<>> THEN Ok(branch_data)
    ELSE LET branch == Head(listing)
             cmp == compare_branches(branch.cmp)
         IN  IF Raised(cmp) THEN cmp
             ELSE IF cmp.value = NoneCmp
             THEN ScanBranchesNoSkip(Tail(listing), default_branch, pr_branches, branch_data)
             ELSE LET rec == BranchRecord(branch, cmp.value, pr_branches) IN
                  IF Raised(rec) THEN rec
                  ELSE ScanBranchesNoSkip(Tail(listing), default_branch, pr_branches,
                                          Append(branch_data, rec.value))

\* lines 200-253: the loop over the branch listing
RECURSIVE ScanBranches(_, _, _, _)
ScanBranches(listing, default_branch, pr_branches, branch_data) ==
    IF listing = <<>> THEN Ok(branch_data)
    ELSE LET branch == Head(listing) IN
         IF branch.name = default_branch
         THEN ScanBranches(Tail(listing), default_branch, pr_branches, branch_data)
         ELSE LET cmp == compare_branches(branch.cmp) IN
              IF Raised(cmp) THEN cmp
              ELSE IF cmp.value = NoneCmp
              THEN ScanBranches(Tail(listing), default_branch, pr_branches, branch_data)
              ELSE LET rec == BranchRecord(branch, cmp.value, pr_branches) IN
                   IF Raised(rec) THEN rec
                   ELSE ScanBranches(Tail(listing), default_branch, pr_branches,
                                     Append(branch_data, rec.value))

sort_order(classification) ==
    CASE classification = "DIVERGED" -> 0
      [] classification = "AHEAD ONLY" -> 1
      [] classification = "STALE" -> 2
      [] classification = "SAFE TO DELETE" -> 3
      [] classification = "ACTIVE PR" -> 4
      [] OTHER -> 5

\* (mutant) a sort that is not stable: index n goes before the indices
\* placed so far whose key is equal
RECURSIVE SortedIndicesUnstable(_, _)
SortedIndicesUnstable(keys, n) ==
    IF n = 0 THEN <<>>
    ELSE LET sorted == SortedIndicesUnstable(keys, n - 1)
             m == Cardinality({i \in DOMAIN sorted : keys[sorted[i]] < keys[n]})
         IN  SubSeq(sorted, 1, m) \o <<n>> \o SubSeq(sorted, m + 1, Len(sorted))

\* list.sort(key=...), on the keys: the indices 1..n of keys in stable
\* ascending order of key.  Index n goes behind every index placed so far
\* whose key is not greater.
RECURSIVE SortedIndices(_, _)
SortedIndices(keys, n) ==
    IF n = 0 THEN <<>>
    ELSE LET sorted == SortedIndices(keys, n - 1)
             m == Cardinality({i \in DOMAIN sorted : keys[sorted[i]] <= keys[n]})
         IN  SubSeq(sorted, 1, m) \o <<n>> \o SubSeq(sorted, m + 1, Len(sorted))

\* seq.sort(key=lambda x: keys[index of x])
SortByKeys(seq, keys) ==
    LET idx == SortedIndices(keys, Len(seq)) IN
    [i \in DOMAIN seq |-> seq[idx[i]]]

\* key=lambda b: sort_order.get(b["classification"], 5)
BranchKeys(branch_data) ==
    [i \in DOMAIN branch_data |-> sort_order(branch_data[i].classification)]

\* gh is what GitHub answers to this scan's requests: gh.branches the pages
\* of the branch listing (each entry carrying, as cmp, the answer to its
\* comparison request), gh.pulls and gh.claude_md
scan_repo(repo, gh) ==
    LET default_branch == Get(repo, "default_branch", Str("main"))
        branches == get_branches(gh.branches)
    IN  IF Raised(branches) THEN branches
        ELSE LET pulls == get_pulls(gh.pulls) IN
        IF Raised(pulls) THEN pulls
        ELSE LET pr_branches == {pulls.value[i] : i \in DOMAIN pulls.value}
                 branch_data == ScanBranches(branches.value, default_branch,
                                             pr_branches, <<>>)
             IN
        IF Raised(branch_data) THEN branch_data
        ELSE LET sorted == SortByKeys(branch_data.value, BranchKeys(branch_data.value))
                 has_claude_md == check_claude_md(gh.claude_md)
             IN
        IF Raised(has_claude_md) THEN has_claude_md
        ELSE Ok([owner |-> repo.owner,
                 name |-> repo.name,
                 full_name |-> repo.full_name,
                 default_branch |-> default_branch,
                 branches |-> sorted,
                 branch_count |-> Len(sorted),
                 has_claude_md |-> has_claude_md.value])

----------------------------------------------------------------------------
(* The Flask application: module state of app.py and the files of models.py *)

NoScan == [none |-> TRUE]            \* _scan_results = None
NoClient == "None"
EmptyCache == [k \in {} |-> NoScan]  \* {}: no analysis_cache.json yet

NoFile == [missing |-> TRUE]         \* no config/credentials.enc
Browsers == {"b1", "b2"}             \* browser sessions, each with its cookie

\* models.DEFAULT_PREFS; excluded_repos is the one preference followed
DEFAULT_PREFS == [excluded_repos |-> {}]

\* what a request is answered with
NotRequested == "no request yet"
RedirectLogin == "redirect to login"
RedirectDashboard == "redirect to dashboard"
LoginPage == "login page"
Page == "page"
Json == "json"
JsonError == "json error"
ServerError == "unhandled exception"

\* the state after import, on a machine without data and config files
AppStart ==
    /\ authenticated = [b \in Browsers |-> FALSE]
    /\ github_client = NoClient
    /\ credentials = NoClient
    /\ scan_results = NoScan
    /\ scan_history = <<>>
    /\ analysis_cache = EmptyCache
    /\ action_log = <<>>
    /\ session_cost = [total_input_tokens |-> 0, total_output_tokens |-> 0,
                       analyses_count |-> 0]
    /\ preferences = DEFAULT_PREFS
    /\ credentials_file = NoFile
    /\ response = NotRequested
    /\ call_out = Pending

----------------------------------------------------------------------------
(* security.py *)

\* PBKDF2-HMAC-SHA256 of the password under the salt: distinct (password,
\* salt) pairs give distinct keys
derive_key(password, salt) == <<password, salt>>

\* the file written by encrypt_credentials: the salt, then the Fernet token
\* of the payload under the derived key
encrypt_credentials(password, github_pat, anthropic_key, salt) ==
    [salt |-> salt,
     token |-> [key |-> derive_key(password, salt),
                payload |-> [github_pat |-> github_pat,
                             anthropic_key |-> anthropic_key]]]

credentials_exist(file) == file # NoFile

\* (mutant) the token is decrypted whatever key it was made with
decrypt_credentials_any_password(file, password) ==
    IF file = NoFile THEN NoScan ELSE file.token.payload

\* Fernet.decrypt raises InvalidToken unless the key is the token's
decrypt_credentials(file, password) ==
    IF file = NoFile THEN NoScan
    ELSE IF derive_key(password, file.salt) = file.token.key
         THEN file.token.payload
         ELSE NoScan

delete_credentials(file) == NoFile

\* models.log_action: the timestamp and the details text are left out
log_action(log, type, repo, branch) ==
    Append(log, [type |-> type, repo |-> repo, branch |-> branch])

\* (mutant) history["scans"][:50]: the first HistoryKeep scans are kept
save_scan_keep_first(history, stamped) ==
    LET scans == Append(history, stamped) IN
    SubSeq(scans, 1, IF Len(scans) > HistoryKeep THEN HistoryKeep ELSE Len(scans))

\* models.get_latest_scan
get_latest_scan(history) ==
    IF history = <<>> THEN NoScan ELSE history[Len(history)]

\* models.save_scan: scan_data is stamped in place, appended, and the last
\* HistoryKeep scans are kept
save_scan(history, stamped) ==
    LET scans == Append(history, stamped) IN
    SubSeq(scans, IF Len(scans) > HistoryKeep THEN Len(scans) - HistoryKeep + 1 ELSE 1,
           Len(scans))

\* f"{repo_name}/{branch_name}/{commit_sha}"
CacheKey(repo_name, branch_name, commit_sha) == repo_name \o branch_name \o commit_sha

\* models.get_cached_analysis: cache.get(key)
get_cached_analysis(cache, repo_name, branch_name, commit_sha) ==
    LET key == CacheKey(repo_name, branch_name, commit_sha) IN
    IF key \in DOMAIN cache THEN cache[key] ELSE NoScan

\* models.cache_analysis
cache_analysis(cache, repo_name, branch_name, commit_sha, analysis) ==
    LET key == CacheKey(repo_name, branch_name, commit_sha)
        stamped == [analysis EXCEPT !.cached_at = now]
    IN  [k \in DOMAIN cache \cup {key} |-> IF k = key THEN stamped ELSE cache[k]]

\* SessionCost.add; total_cost, a float, is left out
SessionCostAdd(cost, usage) ==
    [total_input_tokens |-> cost.total_input_tokens + usage.input_tokens,
     total_output_tokens |-> cost.total_output_tokens + usage.output_tokens,
     analyses_count |-> cost.analyses_count + 1]

\* app.scan, lines 152-165: the record of a repository whose scan raised
DegradedRecord(repo, e) ==
    [owner |-> repo.owner,
     name |-> repo.name,
     full_name |-> repo.full_name,
     default_branch |-> Get(repo, "default_branch", Str("main")),
     branches |-> <<>>,
     branch_count |-> 0,
     has_claude_md |-> FALSE,
     error |-> e]

\* app.scan, lines 149-165: repo_data is what scan_repo gave or raised
RepoResult(repo, repo_data) ==
    IF Raised(repo_data) THEN DegradedRecord(repo, repo_data.raised)
    ELSE repo_data.value

RECURSIVE SumCounts(_)
SumCounts(results) ==
    IF results = <<>> THEN 0
    ELSE Get(Head(results), "branch_count", 0) + SumCounts(Tail(results))

\* (mutant) only the full name is looked up in the exclusion set
KeptByFullName(repos, excluded) ==
    SelectSeq(repos, LAMBDA r : ~(r.full_name \in excluded))

\* line 147: the listed repositories that are not excluded
Kept(repos, excluded) ==
    SelectSeq(repos, LAMBDA r : ~(r.full_name \in excluded \/ r.name \in excluded))

\* (mutant) the scan of the repositories stops at the first one that raises
ScanKeptUntilFailure(kept, gh_of) ==
    LET failed == {i \in DOMAIN kept :
                      Raised(scan_repo(kept[i], gh_of[kept[i].full_name]))}
        last == IF failed = {} THEN Len(kept)
                ELSE CHOOSE i \in failed : \A j \in failed : i <= j
    IN  [i \in 1 .. last |->
            RepoResult(kept[i], scan_repo(kept[i], gh_of[kept[i].full_name]))]

\* lines 146-165; gh_of gives, per full_name, what GitHub answers to that
\* repository's scan
ScanKept(kept, gh_of) ==
    [i \in DOMAIN kept |->
        RepoResult(kept[i], scan_repo(kept[i], gh_of[kept[i].full_name]))]

\* (mutant) sorted(results, key=branch_count)[::-1]: equal counts come out
\* in the reverse of their order
SortByCountReversed(results) ==
    LET up == SortByKeys(results, [i \in DOMAIN results |-> Get(results[i], "branch_count", 0)])
    IN  [i \in DOMAIN up |-> up[Len(up) + 1 - i]]

\* line 168: results.sort(key=branch_count, reverse=True), which keeps the
\* order of equal keys
SortByCount(results) ==
    SortByKeys(results, [i \in DOMAIN results |-> 0 - Get(results[i], "branch_count", 0)])

\* lines 170-174
Totals(results) ==
    [repos |-> results,
     total_repos |-> Len(results),
     total_branches |-> SumCounts(results)]

\* app.scan, lines 145-174: the aggregate of the listed repositories
Aggregate(repos, gh_of, excluded) ==
    Totals(SortByCount(ScanKept(Kept(repos, excluded), gh_of)))

\* (mutant) the handler runs whatever the session is
require_auth_open(b, Handler) == Handler

\* _require_auth: outside an authenticated session the request is answered
\* with a redirect to login and the wrapped handler does not run
require_auth(b, Handler) ==
    IF ~authenticated[b]
    THEN /\ response' = RedirectLogin
         /\ UNCHANGED <<authvars, datavars, credentials_file>>
    ELSE Handler

\* GitHubClient.verify_token: the user info with the X-OAuth-Scopes header,
\* None for a response other than 200
verify_token(resp) ==
    IF resp.outcome = "transport error" THEN Raise("ConnectionError")
    ELSE IF resp.outcome = "200" THEN Ok([scopes |-> resp.body])
    ELSE Ok(NoScan)

\* "repo" in scopes: a substring test on the header.  A scope name is the
\* sequence of its parts, "public_repo" being <<"public_", "repo">>.
HasRepo(scopes) == \E sc \in scopes : \E i \in DOMAIN sc : sc[i] = "repo"

\* _init_session, then session["authenticated"] = True (lines 63-65 and
\* 90-94); again answers the verify_token request of _init_session
InitSession(b, again) ==
    /\ credentials' = "set"
    /\ github_client' = "client"
    /\ IF Raised(verify_token(again))
       THEN UNCHANGED authenticated /\ response' = ServerError
       ELSE /\ authenticated' = [authenticated EXCEPT ![b] = TRUE]
            /\ response' = RedirectDashboard

\* POST /login, first-time setup (lines 67-94); verify answers the
\* verify_token request of line 78, salt is os.urandom's
FirstLogin(b, form, salt, verify, again) ==
    IF form.password = <<>> \/ form.github_pat = "" \/ form.anthropic_key = ""
    THEN response' = LoginPage /\ UNCHANGED <<authvars, credentials_file>>
    ELSE IF Len(form.password) < MinPassword
    THEN response' = LoginPage /\ UNCHANGED <<authvars, credentials_file>>
    ELSE LET user_info == verify_token(verify) IN
         IF Raised(user_info)
         THEN response' = ServerError /\ UNCHANGED <<authvars, credentials_file>>
         ELSE IF user_info.value = NoScan
         THEN response' = LoginPage /\ UNCHANGED <<authvars, credentials_file>>
         ELSE IF ~HasRepo(user_info.value.scopes)
         THEN response' = LoginPage /\ UNCHANGED <<authvars, credentials_file>>
         ELSE /\ credentials_file' = encrypt_credentials(form.password, form.github_pat,
                                                         form.anthropic_key, salt)
              /\ InitSession(b, again)

\* POST /login
Login(b, form, salt, verify, again) ==
    /\ IF credentials_exist(credentials_file)
       THEN IF decrypt_credentials(credentials_file, form.password) = NoScan
            THEN response' = LoginPage /\ UNCHANGED <<authvars, credentials_file>>
            ELSE InitSession(b, again) /\ UNCHANGED credentials_file
       ELSE FirstLogin(b, form, salt, verify, again)
    /\ UNCHANGED <<envvars, datavars>>

\* (mutant) only the browser session is cleared
LogoutSessionOnly(b) ==
    /\ authenticated' = [authenticated EXCEPT ![b] = FALSE]
    /\ response' = RedirectLogin
    /\ UNCHANGED <<github_client, credentials, envvars, datavars, credentials_file>>

\* GET /logout
Logout(b) ==
    /\ github_client' = NoClient
    /\ credentials' = NoClient
    /\ authenticated' = [authenticated EXCEPT ![b] = FALSE]
    /\ response' = RedirectLogin
    /\ UNCHANGED <<envvars, datavars, credentials_file>>

\* app.scan, lines 170-176: the stamped aggregate is kept, saved and logged
StoreScan(stamped) ==
    /\ scan_results' = stamped
    /\ scan_history' = save_scan(scan_history, stamped)
    /\ action_log' = log_action(action_log, "scan", Str("all"), Str("all"))

\* app.scan from line 145 on; repos is what get_repos gave or raised
ScanListed(repos, gh_of, excluded) ==
    IF Raised(repos)
    THEN response' = ServerError /\ UNCHANGED <<scan_results, scan_history, action_log>>
    ELSE /\ StoreScan([timestamp |-> now] @@ Aggregate(repos.value, gh_of, excluded))
         /\ response' = RedirectDashboard

\* POST /scan.  pages answers the repository listing, gh_of the scans of the
\* repositories.
Scan(b, pages, gh_of) ==
    /\ Len(scan_history) < MaxScans
    /\ Len(action_log) < MaxActions
    /\ require_auth(b,
           /\ IF github_client = NoClient
              THEN /\ response' = RedirectDashboard
                   /\ UNCHANGED <<scan_results, scan_history, action_log>>
              ELSE ScanListed(get_repos(pages), gh_of, preferences.excluded_repos)
           /\ UNCHANGED <<authvars, analysis_cache, session_cost, preferences,
                          credentials_file>>)
    /\ UNCHANGED envvars

\* (mutant) the branches without a cached analysis are dropped from the record
WithCachedAnalysisOnly(repo, name) ==
    [repo EXCEPT !.branches =
        SelectSeq(repo.branches,
                  LAMBDA branch : CacheKey(name, branch.name, branch.commit_sha)
                                      \in DOMAIN analysis_cache)]

\* repo_detail, lines 202-207: branch["analysis"] = cache[key], in place
WithCachedAnalysis(repo, name) ==
    [repo EXCEPT !.branches =
        [i \in DOMAIN repo.branches |->
            LET branch == repo.branches[i]
                key == CacheKey(name, branch.name, branch.commit_sha)
            IN  IF key \in DOMAIN analysis_cache
                THEN [analysis |-> analysis_cache[key]] @@ branch
                ELSE branch]]

\* repo_detail, lines 188-218
RepoDetailHandler(owner, name) ==
    IF scan_results = NoScan
    THEN response' = RedirectDashboard /\ UNCHANGED scan_results
    ELSE LET found == {i \in DOMAIN scan_results.repos :
                          scan_results.repos[i].owner = owner
                          /\ scan_results.repos[i].name = name}
         IN  IF found = {}
             THEN response' = RedirectDashboard /\ UNCHANGED scan_results
             ELSE LET i == CHOOSE j \in found : \A k \in found : j <= k IN
                  /\ scan_results' =
                         [scan_results EXCEPT !.repos[i] = WithCachedAnalysis(@, name)]
                  /\ response' = Page

\* GET /repo/<owner>/<name>
RepoDetail(b, owner, name) ==
    /\ require_auth(b,
           /\ RepoDetailHandler(owner, name)
           /\ UNCHANGED <<authvars, scan_history, analysis_cache, action_log,
                          session_cost, preferences, credentials_file>>)
    /\ UNCHANGED envvars

Missing == <<>>                      \* a request field that is absent or empty

\* analyze_branch_route, lines 245-256: the branch record the analysis is
\* computed from, NoScan when there is none
FindBranch(owner, repo_name, branch_name) ==
    IF scan_results = NoScan THEN NoScan
    ELSE LET found == {i \in DOMAIN scan_results.repos :
                          scan_results.repos[i].name = repo_name
                          /\ scan_results.repos[i].owner = owner}
         IN  IF found = {} THEN NoScan
             ELSE LET repo == scan_results.repos[CHOOSE j \in found : \A k \in found : j <= k]
                      hits == {i \in DOMAIN repo.branches : repo.branches[i].name = branch_name}
                  IN  IF hits = {} THEN NoScan
                      ELSE repo.branches[CHOOSE j \in hits : \A k \in hits : j <= k]

\* (mutant) an analysis answered from the cache is counted in the session cost
AnalyzeHandlerCountingCached(data, commits, ai) ==
    LET complete == Missing \notin {data.repo_name, data.owner, data.branch_name,
                                    data.commit_sha}
        cached == get_cached_analysis(analysis_cache, data.repo_name,
                                      data.branch_name, data.commit_sha)
        branch_data == FindBranch(data.owner, data.repo_name, data.branch_name)
        unchanged == UNCHANGED <<analysis_cache, action_log, session_cost>>
    IN  IF credentials = NoClient \/ github_client = NoClient
        THEN response' = JsonError /\ unchanged
        ELSE IF ~complete THEN response' = JsonError /\ unchanged
        ELSE IF cached # NoScan
        THEN /\ response' = Json
             /\ session_cost' = [session_cost EXCEPT !.analyses_count = @ + 1]
             /\ UNCHANGED <<analysis_cache, action_log>>
        ELSE IF branch_data = NoScan THEN response' = JsonError /\ unchanged
        ELSE IF commits.outcome = "transport error"
        THEN response' = ServerError /\ unchanged
        ELSE IF Raised(ai) THEN response' = JsonError /\ unchanged
        ELSE LET analysis == [owner |-> data.owner,
                              repo_name |-> data.repo_name,
                              branch |-> branch_data.name,
                              commit_sha |-> branch_data.commit_sha,
                              usage |-> ai,
                              cached_at |-> 0]
             IN  /\ analysis_cache' = cache_analysis(analysis_cache, data.repo_name,
                                                     data.branch_name, data.commit_sha,
                                                     analysis)
                 /\ action_log' = log_action(action_log, "analyze", data.repo_name,
                                             data.branch_name)
                 /\ session_cost' = SessionCostAdd(session_cost, ai)
                 /\ response' = Json

\* analyze_branch_route, lines 226-301
AnalyzeHandler(data, commits, ai) ==
    LET complete == Missing \notin {data.repo_name, data.owner, data.branch_name,
                                    data.commit_sha}
        cached == get_cached_analysis(analysis_cache, data.repo_name,
                                      data.branch_name, data.commit_sha)
        branch_data == FindBranch(data.owner, data.repo_name, data.branch_name)
        unchanged == UNCHANGED <<analysis_cache, action_log, session_cost>>
    IN  IF credentials = NoClient \/ github_client = NoClient
        THEN response' = JsonError /\ unchanged
        ELSE IF ~complete THEN response' = JsonError /\ unchanged
        ELSE IF cached # NoScan THEN response' = Json /\ unchanged
        ELSE IF branch_data = NoScan THEN response' = JsonError /\ unchanged
        ELSE IF commits.outcome = "transport error"
        THEN response' = ServerError /\ unchanged
        ELSE IF Raised(ai) THEN response' = JsonError /\ unchanged
        ELSE LET analysis == [owner |-> data.owner,
                              repo_name |-> data.repo_name,
                              branch |-> branch_data.name,
                              commit_sha |-> branch_data.commit_sha,
                              usage |-> ai,
                              cached_at |-> 0]
             IN  /\ analysis_cache' = cache_analysis(analysis_cache, data.repo_name,
                                                     data.branch_name, data.commit_sha,
                                                     analysis)
                 /\ action_log' = log_action(action_log, "analyze", data.repo_name,
                                             data.branch_name)
                 /\ session_cost' = SessionCostAdd(session_cost, ai)
                 /\ response' = Json

\* the /analyze request completes a fresh AI call: it comes from a signed-in
\* session with client and credentials, names its four fields, is not
\* answered from the cache, names a branch of the scan results, and the
\* commits request and the AI call return
FreshAnalysis(b, data, commits, ai) ==
    /\ authenticated[b] /\ credentials # NoClient /\ github_client # NoClient
    /\ Missing \notin {data.repo_name, data.owner, data.branch_name, data.commit_sha}
    /\ CacheKey(data.repo_name, data.branch_name, data.commit_sha)
           \notin DOMAIN analysis_cache
    /\ scan_results # NoScan
    /\ \E i \in DOMAIN scan_results.repos :
           /\ scan_results.repos[i].name = data.repo_name
           /\ scan_results.repos[i].owner = data.owner
           /\ \E k \in DOMAIN scan_results.repos[i].branches :
                  scan_results.repos[i].branches[k].name = data.branch_name
    /\ commits.outcome # "transport error"
    /\ ~Raised(ai)

\* POST /analyze.  data is the request's JSON, commits answers the request
\* for the default branch's commits, ai is the AI call's outcome: the
\* exception it raised, or the usage of a completed call.
Analyze(b, data, commits, ai) ==
    /\ FreshAnalysis(b, data, commits, ai) =>
           (session_cost.analyses_count < MaxAnalyses /\ Len(action_log) < MaxActions)
    /\ require_auth(b,
           /\ AnalyzeHandler(data, commits, ai)
           /\ UNCHANGED <<authvars, scan_results, scan_history, preferences,
                          credentials_file>>)
    /\ UNCHANGED envvars

\* the routes whose handlers write nothing this model follows: dashboard,
\* estimate_cost_route, archive, setup_guide, action_log, settings (GET)
\* and session_cost
ViewRoutes ==
    {"/", "/estimate", "/archive", "/setup-guide", "/action-log", "/settings",
     "/api/session-cost"}

\* what such a handler answers with: a page or JSON; estimate answers 404
\* for a branch that is not in the scan results, and archive raises when a
\* tag listing gets no response
ViewAnswers(route) ==
    CASE route = "/estimate" -> {Json, JsonError}
      [] route = "/api/session-cost" -> {Json}
      [] route = "/archive" -> {Page, ServerError}
      [] OTHER -> {Page}

\* GET or POST of one of the ViewRoutes
View(b, route, answer) ==
    /\ require_auth(b,
           /\ response' = answer
           /\ UNCHANGED <<authvars, datavars, credentials_file>>)
    /\ UNCHANGED envvars

\* create_archive, lines 377-432; tag answers the two requests of
\* create_archive_tag
CreateArchiveHandler(data, tag) ==
    IF github_client = NoClient
    THEN response' = JsonError /\ UNCHANGED action_log
    ELSE IF Missing \in {data.owner, data.repo_name, data.branch_name, data.commit_sha}
    THEN response' = JsonError /\ UNCHANGED action_log
    ELSE IF tag.outcome = "transport error"
    THEN response' = ServerError /\ UNCHANGED action_log
    ELSE IF tag.outcome # "200"
    THEN response' = JsonError /\ UNCHANGED action_log
    ELSE /\ action_log' = log_action(action_log, "archive", data.repo_name,
                                     data.branch_name)
         /\ response' = Json

\* POST /archive/create
CreateArchive(b, data, tag) ==
    /\ Len(action_log) < MaxActions
    /\ require_auth(b,
           /\ CreateArchiveHandler(data, tag)
           /\ UNCHANGED <<authvars, scan_results, scan_history, analysis_cache,
                          session_cost, preferences, credentials_file>>)
    /\ UNCHANGED envvars

\* POST /archive/reinstate-instructions
ReinstateInstructions(b, data) ==
    /\ Len(action_log) < MaxActions
    /\ require_auth(b,
           /\ action_log' = log_action(action_log, "reinstate_instructions",
                                       data.repo_name, data.branch_name)
           /\ response' = Json
           /\ UNCHANGED <<authvars, scan_results, scan_history, analysis_cache,
                          session_cost, preferences, credentials_file>>)
    /\ UNCHANGED envvars

\* POST /api/mark-done
MarkDone(b, data) ==
    /\ Len(action_log) < MaxActions
    /\ require_auth(b,
           /\ action_log' = log_action(action_log, "mark_done", data.repo_name,
                                       data.branch_name)
           /\ response' = Json
           /\ UNCHANGED <<authvars, scan_results, scan_history, analysis_cache,
                          session_cost, preferences, credentials_file>>)
    /\ UNCHANGED envvars

RedirectSettings == "redirect to settings"
RedirectLogout == "redirect to logout"

\* POST /settings, lines 507-530; the product specs of save_spec are not
\* followed
SettingsHandler(form) ==
    IF form.action = "save_preferences"
    THEN /\ preferences' = [preferences EXCEPT !.excluded_repos = form.excluded_repos]
         /\ response' = RedirectSettings
         /\ UNCHANGED credentials_file
    ELSE IF form.action = "reset_credentials"
    THEN /\ credentials_file' = delete_credentials(credentials_file)
         /\ response' = RedirectLogout
         /\ UNCHANGED preferences
    ELSE /\ response' = RedirectSettings
         /\ UNCHANGED <<preferences, credentials_file>>

\* POST /settings
Settings(b, form) ==
    /\ require_auth(b,
           /\ SettingsHandler(form)
           /\ UNCHANGED <<authvars, scan_results, scan_history, analysis_cache,
                          action_log, session_cost>>)
    /\ UNCHANGED envvars

----------------------------------------------------------------------------
(* One scan_repo call: the repository and GitHub's answers are drawn at    *)
(* Init, and scan_repo is applied to them.                                 *)

\* the clock reading of the scans: instant 0 is stale, RecentInstant is not
ScanNow == ClockStart + TicksPerDay

\* a repository without default_branch (main is assumed) and one whose
\* default branch is dev
ScanRepos ==
    {[owner |-> Str("alice"), name |-> Str("app"), full_name |-> <<"alice", "app">>],
     [owner |-> Str("alice"), name |-> Str("app"), full_name |-> <<"alice", "app">>,
      default_branch |-> Str("dev")]}

CompareAnswers ==
    {RespNot200(BlankCmp), NoResponse(BlankCmp), Resp200(Merged), Resp200(OldDiverged),
     Resp200(Uncommitted)}

ListingEntries == [name : BranchNames, sha : {Str("a1")}, cmp : CompareAnswers]

Listings == UNION {[1 .. n -> ListingEntries] : n \in 0 .. MaxBranches}

\* the open pull requests of the scanned repository, by head ref, in the
\* order GitHub lists them: two, and one more than a page holds with the
\* pull request of branch fix listed last
OpenPulls ==
    {<<Str("fix"), Str("main")>>,
     [i \in 1 .. PerPage |-> Str("main")] \o <<Str("fix")>>}

\* what GitHub sends for GET /repos/{owner}/{repo}/pulls?state=open&per_page=100
\* when it answers 200: the first per_page of the open pull requests
PullsPage(open) ==
    SubSeq(open, 1, IF Len(open) < PerPage THEN Len(open) ELSE PerPage)

PullAnswers(open) == {Resp200(PullsPage(open)), RespNot200(<<>>)}

ClaudeAnswers == {Resp200(<<>>), RespNot200(<<>>)}

ScanInputs ==
    UNION {[repo : ScanRepos,
            open_pulls : {open},
            gh : [branches : {<<Resp200(l)>> : l \in Listings},
                  pulls : PullAnswers(open),
                  claude_md : ClaudeAnswers]] : open \in OpenPulls}

NoInput == [repo |-> <<>>, gh |-> <<>>]

\* no scan request is being handled
NoRun ==
    [pc |-> "idle", page |-> 1, repos |-> <<>>, i |-> 1, results |-> <<>>,
     branches |-> <<>>, j |-> 1, branch_data |-> 0,
     compares |-> 0, pulls |-> 0, calls |-> <<>>, returned |-> TRUE]

ScanRepoUnused == sr_in = NoInput /\ sr_out = Pending /\ scan_run = NoRun

InitScanRepo ==
    /\ now = ScanNow
    /\ comparison = <<>> /\ last_commit_date = None /\ has_pr = FALSE
    /\ result = NotCalled /\ result_at = 0
    /\ sr_in \in ScanInputs
    /\ sr_out = Pending
    /\ scan_run = NoRun
    /\ AppStart

ScanRepoCall ==
    /\ sr_out = Pending
    /\ sr_out' = scan_repo(sr_in.repo, sr_in.gh)
    /\ UNCHANGED <<now, cvars, sr_in, scan_run, avars>>

NextScanRepo == ScanRepoCall

SpecScanRepo == InitScanRepo /\ [][NextScanRepo]_vars

----------------------------------------------------------------------------
(* Properties of scan_repo, under SpecScanRepo *)

Scanned == sr_out # Pending
Listing == sr_in.gh.branches[1].body
DefaultBranch == Get(sr_in.repo, "default_branch", Str("main"))

\* the listing's entries that are not the default branch, by the outcome
\* of their comparison request
Fetched == {i \in DOMAIN Listing :
               Listing[i].name # DefaultBranch /\ Listing[i].cmp.outcome = "200"}
Failed == {i \in DOMAIN Listing :
              Listing[i].name # DefaultBranch /\ Listing[i].cmp.outcome # "200"}

\* C8: no branch record of a RepoScanResult is named as the result's
\* default_branch, whatever the branch listing holds.
C8_NoDefaultBranch ==
    (Scanned /\ ~Raised(sr_out)) =>
        \A i \in DOMAIN sr_out.value.branches :
            sr_out.value.branches[i].name # sr_out.value.default_branch

C8_Witness ==
    /\ Scanned /\ ~Raised(sr_out)
    /\ sr_out.value.default_branch = Str("dev")
    /\ Cardinality({i \in DOMAIN Listing : Listing[i].name = Str("dev")}) >= 2
    /\ Len(sr_out.value.branches) >= 1

\* one record per fetched entry, none for the others
OneRecordPerFetched ==
    /\ ~Raised(sr_out)
    /\ \A n \in BranchNames :
           Cardinality({i \in DOMAIN sr_out.value.branches :
                           sr_out.value.branches[i].name = n})
           = Cardinality({i \in Fetched : Listing[i].name = n})

\* C10: when the comparison fetch of a non-default branch fails, by a
\* non-success response or by a transport error, scan_repo does not raise,
\* emits no record for that branch and one record for every other
\* non-default branch whose comparison succeeded.
C10_SkipFailedBranch == (Scanned /\ Failed # {}) => OneRecordPerFetched

\* The same, for comparison fetches that fail by a non-success response
\* only, the fetched comparisons being well formed: this much of C10 holds.
SkipOnNot200 ==
    (/\ Scanned /\ Failed # {}
     /\ \A i \in Failed : Listing[i].cmp.outcome = "not 200"
     /\ \A i \in Fetched : Listing[i].cmp.body # Uncommitted)
    => OneRecordPerFetched

\* the classified records before the sort of line 257, in listing order
Classified ==
    ScanBranches(Listing, DefaultBranch,
                 {get_pulls(sr_in.gh.pulls).value[i] :
                      i \in DOMAIN get_pulls(sr_in.gh.pulls).value},
                 <<>>).value

\* the records of seq whose classification has sort key k, in seq's order
WithKey(seq, k) == SelectSeq(seq, LAMBDA b : sort_order(b.classification) = k)

\* C11: the branches returned by scan_repo are the classified records in
\* the stable order of the key DIVERGED=0, AHEAD ONLY=1, STALE=2,
\* SAFE TO DELETE=3, ACTIVE PR=4, other 5: the keys are non-decreasing
\* along the sequence, and the records of each key are those of the listing
\* in the listing's order.
C11_StableSort ==
    (Scanned /\ ~Raised(sr_out)) =>
        LET out == sr_out.value.branches IN
        /\ Len(out) = Len(Classified)
        /\ \A i, j \in DOMAIN out :
               i < j => sort_order(out[i].classification) <= sort_order(out[j].classification)
        /\ \A k \in 0 .. 5 : WithKey(out, k) = WithKey(Classified, k)

C11_Witness ==
    /\ Scanned /\ ~Raised(sr_out)
    /\ Len(sr_out.value.branches) = 3
    /\ Len(Listing) = 3
    /\ Listing[1].name = Str("fix") /\ Listing[2].name = Str("dev")
    /\ Listing[3].cmp = Resp200(OldDiverged)
    /\ sr_out.value.branches[1].classification = "STALE"
    /\ sr_out.value.branches[2].classification = "SAFE TO DELETE"
    /\ sr_out.value.branches[2].name = Str("fix")
    /\ sr_out.value.branches[3].classification = "SAFE TO DELETE"
    /\ sr_out.value.branches[3].name = Str("dev")

\* the head refs of the repository's open pull requests
OpenHeads == {sr_in.open_pulls[k] : k \in DOMAIN sr_in.open_pulls}

\* C21: for each branch record produced by scan_repo, has_pr is true if
\* and only if at least one open pull request of the repository has a head
\* ref equal to the branch's name, whatever the number of open pull
\* requests the repository has.
C21_HasPr ==
    (Scanned /\ ~Raised(sr_out)) =>
        \A i \in DOMAIN sr_out.value.branches :
            (sr_out.value.branches[i].has_pr)
                <=> (sr_out.value.branches[i].name \in OpenHeads)

\* The same, when the pull-request listing is answered 200 and the
\* repository has no more open pull requests than one page holds: this
\* much of C21 holds.
HasPrWithinOnePage ==
    (/\ Scanned /\ ~Raised(sr_out)
     /\ sr_in.gh.pulls.outcome = "200"
     /\ Len(sr_in.open_pulls) <= PerPage)
    => \A i \in DOMAIN sr_out.value.branches :
           (sr_out.value.branches[i].has_pr)
               <=> (sr_out.value.branches[i].name \in OpenHeads)

\* the last element of a comparison's commit list
LastOf(cmp) == cmp.commits[Len(cmp.commits)]

\* what C22 says last_commit_date is: the last commit's committer date,
\* null without unique commits or without a committer date
DateOfLast(cmp) ==
    IF cmp.commits = <<>> THEN None
    ELSE IF LastOf(cmp).committer = NoCommitter THEN None
    ELSE LastOf(cmp).committer

\* what C22 says last_commit_author is: the last commit's author name,
\* "Unknown" when there is none
AuthorOfLast(cmp) ==
    IF cmp.commits = <<>> THEN "Unknown"
    ELSE IF LastOf(cmp).author = NoAuthor THEN "Unknown"
    ELSE LastOf(cmp).author

\* every comparison request of a non-default branch was answered
AllAnswered == \A i \in Failed : Listing[i].cmp.outcome = "not 200"

\* C22: for every branch whose comparison succeeded, scan_repo takes
\* last_commit_date and last_commit_author from the last element of the
\* comparison's commit list, gives last_commit_author "Unknown" whenever no
\* author is available, and gives last_commit_date null when the branch has
\* no unique commits or the commit carries no committer date, without
\* failing.
C22_LastCommit ==
    (Scanned /\ AllAnswered) =>
        /\ ~Raised(sr_out)
        /\ \A k \in DOMAIN sr_out.value.branches :
               \E i \in Fetched :
                   /\ Listing[i].name = sr_out.value.branches[k].name
                   /\ sr_out.value.branches[k].last_commit_date
                          = DateOfLast(Listing[i].cmp.body)
                   /\ sr_out.value.branches[k].last_commit_author
                          = AuthorOfLast(Listing[i].cmp.body)

\* What holds of it: when the last commit of every fetched comparison that
\* has commits carries a committer, scan_repo does not fail, the date is
\* that of the last commit (null without commits), and the author is that
\* of the last commit, "Unknown" if it has none, and None without commits.
LastCommitWithCommitter ==
    (/\ Scanned /\ AllAnswered
     /\ \A i \in Fetched : Listing[i].cmp.body # Uncommitted)
    => /\ ~Raised(sr_out)
       /\ \A k \in DOMAIN sr_out.value.branches :
              \E i \in Fetched :
                  /\ Listing[i].name = sr_out.value.branches[k].name
                  /\ sr_out.value.branches[k].last_commit_date
                         = DateOfLast(Listing[i].cmp.body)
                  /\ sr_out.value.branches[k].last_commit_author
                         = (IF Listing[i].cmp.body.commits = <<>> THEN AuthorNone
                            ELSE AuthorOfLast(Listing[i].cmp.body))

\* C25: sorting an already-sorted branch sequence again by the
\* classification key yields the identical sequence: applying the scanner's
\* sort twice to the classified records gives the same order as applying
\* it once.
C25_SortIdempotent ==
    (Scanned /\ ~Raised(sr_out)) =>
        LET once == SortByKeys(Classified, BranchKeys(Classified))
            twice == SortByKeys(once, BranchKeys(once))
        IN  /\ sr_out.value.branches = once
            /\ twice = once

\* a listing that the sort reorders and that has two records of one key
C25_Witness ==
    /\ Scanned /\ ~Raised(sr_out)
    /\ Len(Classified) = 3
    /\ sr_out.value.branches # Classified
    /\ \E i, j \in DOMAIN Classified :
           /\ i < j
           /\ Classified[i].classification = Classified[j].classification
           /\ Classified[i] # Classified[j]

----------------------------------------------------------------------------
(* What the application's requests are drawn from *)

Alice == [owner |-> Str("alice"), name |-> Str("app"), full_name |-> <<"alice", "app">>,
          default_branch |-> Str("main")]
Bob == [owner |-> Str("bob"), name |-> Str("app"), full_name |-> <<"bob", "app">>]

RepoPages ==
    {<<Resp200(<<Alice>>)>>, <<Resp200(<<Alice, Bob>>)>>, <<Resp200(<<Alice>>), RespNot200(<<>>)>>,
     <<NoResponse(<<>>)>>}

Entry(name, sha, cmp) == [name |-> Str(name), sha |-> Str(sha), cmp |-> cmp]

\* what GitHub answers to one repository's scan: a fresh branch beside the
\* default one; an old diverged branch and a merged one with an open pull
\* request; a comparison request that gets no response
FreshDev ==
    [branches |-> <<Resp200(<<Entry("main", "a1", Resp200(Merged)),
                              Entry("dev", "a1", Resp200(Fresh))>>)>>,
     pulls |-> Resp200(<<>>), claude_md |-> Resp200(<<>>)]
OldDevAndFix ==
    [branches |-> <<Resp200(<<Entry("dev", "b2", Resp200(OldDiverged)),
                              Entry("fix", "a1", Resp200(Merged))>>)>>,
     pulls |-> Resp200(<<Str("fix")>>), claude_md |-> RespNot200(<<>>)]
Unreachable ==
    [branches |-> <<Resp200(<<Entry("dev", "a1", NoResponse(BlankCmp))>>)>>,
     pulls |-> Resp200(<<>>), claude_md |-> Resp200(<<>>)]

\* a repository with no branch but the default one
OnlyMain ==
    [branches |-> <<Resp200(<<Entry("main", "a1", Resp200(Merged))>>)>>,
     pulls |-> Resp200(<<>>), claude_md |-> Resp200(<<>>)]

\* what GitHub answers to the scans of one scan request, per full_name
Answers(alice, bob) == (<<"alice", "app">> :> alice) @@ (<<"bob", "app">> :> bob)

GitHubAnswers ==
    {Answers(FreshDev, OldDevAndFix), Answers(OldDevAndFix, Unreachable),
     Answers(Unreachable, FreshDev), Answers(Unreachable, OnlyMain)}

\* preferences.json's excluded_repos: nothing, a full name, a short name
ExcludedChoices == {{}, {<<"alice", "app">>}, {Str("app")}}

\* the settings form, saving preferences
PreferencesForms == [action : {"save_preferences"}, excluded_repos : ExcludedChoices]

AnalyzeRequests ==
    [repo_name : {Str("app")}, owner : {Str("alice"), Str("bob")},
     branch_name : {Str("dev"), Str("fix")}, commit_sha : {Str("a1"), Str("b2")}]
    \cup {[repo_name |-> Str("app"), owner |-> Missing, branch_name |-> Str("dev"),
           commit_sha |-> Str("a1")]}

AiAnswers == {Raise("APIError"), [input_tokens |-> 2, output_tokens |-> 1]}

\* a password is the sequence of its characters
GoodPassword == <<"o", "p", "e", "n">>
OtherPassword == <<"s", "h", "u", "t">>
ShortPassword == <<"a", "b", "c">>

Salts == {"salt1", "salt2"}

\* the browser session the scans are requested from
Owner == "b1"

\* The state after a first login in the browser session Owner, with any of
\* the exclusion sets saved as preferences by an earlier run.
Init ==
    /\ now = ScanNow
    /\ comparison = <<>> /\ last_commit_date = None /\ has_pr = FALSE
    /\ result = NotCalled /\ result_at = 0
    /\ ScanRepoUnused
    /\ authenticated = [b \in Browsers |-> b = Owner]
    /\ github_client = "client"
    /\ credentials = "set"
    /\ scan_results = NoScan
    /\ scan_history = <<>>
    /\ analysis_cache = EmptyCache
    /\ action_log = <<>>
    /\ session_cost = [total_input_tokens |-> 0, total_output_tokens |-> 0,
                       analyses_count |-> 0]
    /\ preferences \in [excluded_repos : ExcludedChoices]
    /\ credentials_file = encrypt_credentials(GoodPassword, "ghp", "sk", "salt1")
    /\ response = RedirectDashboard
    /\ call_out = Pending

Next ==
    \/ \E b \in Browsers, pages \in RepoPages, gh_of \in GitHubAnswers : Scan(b, pages, gh_of)
    \/ \E b \in Browsers, owner \in {Str("alice"), Str("bob")} : RepoDetail(b, owner, Str("app"))
    \/ \E b \in Browsers, data \in AnalyzeRequests,
          commits \in {Resp200(<<>>), NoResponse(<<>>)},
          ai \in AiAnswers : Analyze(b, data, commits, ai)

Spec == Init /\ [][Next]_vars

\* every repository record held in the scan results
HeldRepos ==
    IF scan_results = NoScan THEN {}
    ELSE {scan_results.repos[i] : i \in DOMAIN scan_results.repos}

\* C9: in every repository record held in the scan results, branch_count
\* equals the length of branches, after any sequence of scans, repo-detail
\* and analyze requests; in a degraded record both are 0.
C9_BranchCount ==
    \A r \in HeldRepos :
        /\ r.branch_count = Len(r.branches)
        /\ "error" \in DOMAIN r => r.branch_count = 0 /\ r.branches = <<>>

C9_Witness ==
    \E r \in HeldRepos, e \in HeldRepos :
        /\ "error" \in DOMAIN e
        /\ r.branch_count = 2
        /\ \E i \in DOMAIN r.branches : "analysis" \in DOMAIN r.branches[i]

----------------------------------------------------------------------------
(* Properties of the scan request, under Spec *)

\* the records of a stored aggregate for the repository full_name
RecordsFor(aggregate, full_name) ==
    {j \in DOMAIN aggregate.repos : aggregate.repos[j].full_name = full_name}

\* line 147
Excluded(repo, excluded) == repo.full_name \in excluded \/ repo.name \in excluded

\* a scan request answered with pages and gh_of listed the repositories and
\* stored an aggregate in this step
ScanStored(pages, gh_of) ==
    /\ scan_history' # scan_history
    /\ ~Raised(Paginate(pages, 1, <<>>))
    /\ \E b \in Browsers : Scan(b, pages, gh_of)

\* C12: in a scan request, for every listed repository that is not
\* excluded the stored aggregate holds a record: the scan_repo result when
\* the scan of that repository succeeded, and a record with the error,
\* branch_count = 0 and branches = <<>> when it raised, wherever in the
\* listing the failing repository is.
C12_FailureIsolated ==
    [][\A pages \in RepoPages, gh_of \in GitHubAnswers :
          ScanStored(pages, gh_of) =>
              LET listed == Paginate(pages, 1, <<>>).value IN
              \A i \in DOMAIN listed :
                  ~Excluded(listed[i], preferences.excluded_repos) =>
                      LET repo_data == scan_repo(listed[i], gh_of[listed[i].full_name]) IN
                      \E j \in RecordsFor(scan_results', listed[i].full_name) :
                          LET r == scan_results'.repos[j] IN
                          IF Raised(repo_data)
                          THEN /\ Get(r, "error", NoScan) = repo_data.raised
                               /\ r.branch_count = 0
                               /\ r.branches = <<>>
                          ELSE r = repo_data.value]_vars

\* the stored scan holds an errored record for the repository failing and
\* a record with branches for the repository scanned
IsolatedIn(scan, failing, scanned) ==
    /\ \E j \in RecordsFor(scan, failing) : "error" \in DOMAIN scan.repos[j]
    /\ \E j \in RecordsFor(scan, scanned) :
           "error" \notin DOMAIN scan.repos[j] /\ scan.repos[j].branch_count > 0

\* one scan where the repository listed first failed, one where the
\* repository listed last did
C12_Witness ==
    /\ \E i \in DOMAIN scan_history :
           IsolatedIn(scan_history[i], <<"alice", "app">>, <<"bob", "app">>)
    /\ \E i \in DOMAIN scan_history :
           IsolatedIn(scan_history[i], <<"bob", "app">>, <<"alice", "app">>)

\* C13: the aggregate stored by a scan request holds exactly one record
\* for every listed repository whose short name and full name are both
\* absent from the exclusion set, and no other record.
C13_ExactlyTheKept ==
    [][\A pages \in RepoPages, gh_of \in GitHubAnswers :
          ScanStored(pages, gh_of) =>
              LET listed == Paginate(pages, 1, <<>>).value IN
              /\ \A i \in DOMAIN listed :
                     Cardinality(RecordsFor(scan_results', listed[i].full_name))
                     = IF Excluded(listed[i], preferences.excluded_repos) THEN 0 ELSE 1
              /\ \A j \in DOMAIN scan_results'.repos :
                     \E i \in DOMAIN listed :
                         listed[i].full_name = scan_results'.repos[j].full_name]_vars

\* a scan that excluded the first of two listed repositories by its full
\* name
C13_Witness ==
    /\ preferences.excluded_repos = {<<"alice", "app">>}
    /\ \E i \in DOMAIN scan_history :
           /\ scan_history[i].total_repos = 1
           /\ RecordsFor(scan_history[i], <<"bob", "app">>) # {}

\* the place of the repository full_name in a repository listing
ListedAt(listed, full_name) == CHOOSE i \in DOMAIN listed : listed[i].full_name = full_name

\* C14: the repositories of the aggregate stored by a scan request are in
\* descending order of branch_count, and those of equal branch_count,
\* errored ones included, are in the order of the repository listing.
C14_ByCountDescending ==
    [][\A pages \in RepoPages, gh_of \in GitHubAnswers :
          ScanStored(pages, gh_of) =>
              LET listed == Paginate(pages, 1, <<>>).value
                  repos == scan_results'.repos
              IN  \A j, k \in DOMAIN repos :
                      j < k =>
                          /\ repos[j].branch_count >= repos[k].branch_count
                          /\ repos[j].branch_count = repos[k].branch_count =>
                                 ListedAt(listed, repos[j].full_name)
                                 < ListedAt(listed, repos[k].full_name)]_vars

\* a scan whose later-listed repository has more branches and comes first,
\* and a scan of an errored repository and one without branches, which
\* keep their order
C14_Witness ==
    /\ \E i \in DOMAIN scan_history :
           /\ scan_history[i].total_repos = 2
           /\ scan_history[i].repos[1].full_name = <<"bob", "app">>
           /\ scan_history[i].repos[1].branch_count > scan_history[i].repos[2].branch_count
    /\ \E i \in DOMAIN scan_history :
           /\ scan_history[i].total_repos = 2
           /\ scan_history[i].repos[1].full_name = <<"alice", "app">>
           /\ "error" \in DOMAIN scan_history[i].repos[1]
           /\ "error" \notin DOMAIN scan_history[i].repos[2]
           /\ scan_history[i].repos[2].branch_count = 0

\* C15: no failure of a collaborator aborts a scan request: every scan
\* request made in an authenticated session with a client ends by storing
\* an aggregate and redirecting to the dashboard.
C15_ScanNeverAborts ==
    [][\A b \in Browsers, pages \in RepoPages, gh_of \in GitHubAnswers :
          (authenticated[b] /\ github_client # NoClient /\ Scan(b, pages, gh_of)) =>
              /\ response' = RedirectDashboard
              /\ Len(scan_history') = Len(scan_history) + 1
              /\ scan_results' = scan_history'[Len(scan_history')]]_vars

\* C23: a branch record held in the latest scan results is never mutated
\* in place: between the scan that created it and the next scan, which
\* replaces the whole result and adds it to the scan history, no request
\* adds, removes or changes any field of the record.
C23_NeverMutated ==
    [][(scan_results # NoScan /\ scan_history' = scan_history)
          => scan_results' = scan_results]_vars

\* the analyze entries of the action log
AnalyzeEntries == {i \in DOMAIN action_log : action_log[i].type = "analyze"}

\* C29: session cost and cache change only on a fresh successful analysis:
\* an /analyze request answered from the cache, rejected or failing in the
\* AI call leaves the analysis cache, the action log and the session cost
\* unchanged, and one that completes a fresh AI call adds one to
\* analyses_count and its usage to the token totals; no other request
\* changes the cache or the session cost, so analyses_count is the number
\* of /analyze requests that completed a fresh AI call.
C29_CostOnFreshOnly ==
    /\ [][/\ \A b \in Browsers, data \in AnalyzeRequests,
               commits \in {Resp200(<<>>), NoResponse(<<>>)}, ai \in AiAnswers :
               \/ IF FreshAnalysis(b, data, commits, ai)
                  THEN /\ session_cost'.analyses_count = session_cost.analyses_count + 1
                       /\ session_cost'.total_input_tokens
                              = session_cost.total_input_tokens + ai.input_tokens
                       /\ session_cost'.total_output_tokens
                              = session_cost.total_output_tokens + ai.output_tokens
                  ELSE UNCHANGED <<analysis_cache, action_log, session_cost>>
               \/ ~Analyze(b, data, commits, ai)
          /\ (session_cost' # session_cost \/ analysis_cache' # analysis_cache) =>
                 \E b \in Browsers, data \in AnalyzeRequests,
                    commits \in {Resp200(<<>>), NoResponse(<<>>)}, ai \in AiAnswers :
                     FreshAnalysis(b, data, commits, ai) /\ Analyze(b, data, commits, ai)]_vars
    /\ [](session_cost.analyses_count = Cardinality(AnalyzeEntries))

\* after a fresh analysis, an /analyze request was rejected or failed
C29_Witness ==
    /\ session_cost.analyses_count = 1
    /\ session_cost.total_input_tokens = 2 /\ session_cost.total_output_tokens = 1
    /\ response = JsonError
    /\ DOMAIN analysis_cache # {}

\* C30: every analysis that /analyze stores in or returns from the cache
\* under the key (repo_name, branch_name, commit_sha) was computed from the
\* branch record of that same owner's repository whose name is branch_name
\* and whose commit_sha equals commit_sha; an analysis is never served for
\* a different owner's repository of the same name or for a different head
\* sha of the branch.
C30_AnalysisOfItsBranch ==
    [][\A b \in Browsers, data \in AnalyzeRequests,
          commits \in {Resp200(<<>>), NoResponse(<<>>)}, ai \in AiAnswers :
          (authenticated[b] /\ Analyze(b, data, commits, ai) /\ response' = Json) =>
              LET served == analysis_cache'[CacheKey(data.repo_name, data.branch_name,
                                                     data.commit_sha)]
              IN  /\ served.owner = data.owner
                  /\ served.repo_name = data.repo_name
                  /\ served.branch = data.branch_name
                  /\ served.commit_sha = data.commit_sha]_vars

\* What holds of it: the analysis stored or served was computed from a
\* branch record of that name in a repository of that name.
AnalysisOfNamedBranch ==
    [][\A b \in Browsers, data \in AnalyzeRequests,
          commits \in {Resp200(<<>>), NoResponse(<<>>)}, ai \in AiAnswers :
          (authenticated[b] /\ Analyze(b, data, commits, ai) /\ response' = Json) =>
              LET served == analysis_cache'[CacheKey(data.repo_name, data.branch_name,
                                                     data.commit_sha)]
              IN  /\ served.repo_name = data.repo_name
                  /\ served.branch = data.branch_name]_vars

\* What holds of it: /analyze leaves the latest scan results as they are.
AnalyzeKeepsScanResults ==
    [][\A b \in Browsers, data \in AnalyzeRequests,
          commits \in {Resp200(<<>>), NoResponse(<<>>)}, ai \in AiAnswers :
          Analyze(b, data, commits, ai) => scan_results' = scan_results]_vars

----------------------------------------------------------------------------
(* Sessions: the application from its start, requested from two browser    *)
(* sessions, with every route.                                             *)

LoginForms ==
    [password : {GoodPassword, OtherPassword, ShortPassword},
     github_pat : {"ghp"}, anthropic_key : {"sk"}]
    \cup {[password |-> GoodPassword, github_pat |-> "", anthropic_key |-> "sk"]}

\* what GET /user is answered with: the body is the X-OAuth-Scopes header
VerifyAnswers ==
    {Resp200({<<"repo">>}), Resp200({<<"public_", "repo">>}), Resp200({<<"gist">>}),
     RespNot200({}), NoResponse({})}

SettingsForms ==
    [action : {"save_preferences"}, excluded_repos : {{}, {Str("app")}}]
    \cup [action : {"reset_credentials", "save_spec"}, excluded_repos : {{}}]

\* the JSON of the requests about one branch
BranchRequest ==
    [repo_name |-> Str("app"), owner |-> Str("alice"), branch_name |-> Str("dev"),
     commit_sha |-> Str("a1")]

InitAuth ==
    /\ now = ScanNow
    /\ comparison = <<>> /\ last_commit_date = None /\ has_pr = FALSE
    /\ result = NotCalled /\ result_at = 0
    /\ ScanRepoUnused
    /\ AppStart

LoginRequest(b) ==
    \E form \in LoginForms, salt \in {"salt1"}, verify \in VerifyAnswers,
       again \in {Resp200({<<"repo">>}), NoResponse({})} :
        Login(b, form, salt, verify, again)

\* a request of browser session b to one of the routes under _require_auth
ProtectedRequest(b) ==
    \/ \E pages \in {<<Resp200(<<Alice>>)>>, <<NoResponse(<<>>)>>} :
          Scan(b, pages, Answers(FreshDev, OldDevAndFix))
    \/ RepoDetail(b, Str("alice"), Str("app"))
    \/ \E ai \in AiAnswers : Analyze(b, BranchRequest, Resp200(<<>>), ai)
    \/ \E route \in ViewRoutes : \E answer \in ViewAnswers(route) : View(b, route, answer)
    \/ \E tag \in {Resp200(<<>>), RespNot200(<<>>)} : CreateArchive(b, BranchRequest, tag)
    \/ ReinstateInstructions(b, BranchRequest)
    \/ MarkDone(b, BranchRequest)
    \/ \E form \in SettingsForms : Settings(b, form)

NextAuth ==
    \/ \E b \in Browsers : LoginRequest(b)
    \/ \E b \in Browsers : Logout(b)
    \/ \E b \in Browsers : ProtectedRequest(b)

SpecAuth == InitAuth /\ [][NextAuth]_vars

----------------------------------------------------------------------------
(* Properties of the sessions, under SpecAuth *)

\* C16: a request to a protected route from a browser session whose
\* authenticated flag is not set is answered with a redirect to login, and
\* the handler does not run: scan results, analysis cache, action log,
\* preferences and session cost are unchanged.
C16_AuthGate ==
    [][\A b \in Browsers :
          (~authenticated[b] /\ ProtectedRequest(b)) =>
              /\ response' = RedirectLogin
              /\ UNCHANGED <<scan_results, scan_history, analysis_cache, action_log,
                             preferences, session_cost>>]_vars

\* a request was redirected to login while another session is signed in
\* and holds scan results
C16_Witness ==
    /\ response = RedirectLogin
    /\ github_client # NoClient
    /\ scan_results # NoScan
    /\ action_log # <<>>
    /\ \E b \in Browsers : ~authenticated[b]
    /\ \E b \in Browsers : authenticated[b]

\* C17: a logout request leaves the requesting session unauthenticated and
\* the process-wide client and credentials None, and answers with a
\* redirect to login; from then on the session's flag is set only by a
\* login request that succeeds, and until then its requests to protected
\* routes are answered with a redirect to login.
C17_Logout ==
    [][\A b \in Browsers :
          /\ Logout(b) =>
                 /\ ~authenticated'[b]
                 /\ github_client' = NoClient /\ credentials' = NoClient
                 /\ response' = RedirectLogin
          /\ (~authenticated[b] /\ authenticated'[b]) =>
                 LoginRequest(b) /\ response' = RedirectDashboard
          /\ (~authenticated[b] /\ ~authenticated'[b] /\ ProtectedRequest(b)) =>
                 response' = RedirectLogin]_vars

\* a session that had signed in and scanned has logged out
C17_Witness ==
    /\ response = RedirectLogin
    /\ github_client = NoClient /\ credentials = NoClient
    /\ credentials_file # NoFile
    /\ scan_results # NoScan
    /\ \A b \in Browsers : ~authenticated[b]

\* the token has the scope named repo
HasRepoScope(verify) == verify.outcome = "200" /\ <<"repo">> \in verify.body

\* the login POST is one that C27 calls failed: with stored credentials, a
\* password that is not the one they were stored under; on first-time
\* setup, a missing field, a password shorter than 4 characters, a PAT that
\* fails verification or a PAT without the repo scope
FailedLogin(form, verify) ==
    IF credentials_file # NoFile
    THEN derive_key(form.password, credentials_file.salt) # credentials_file.token.key
    ELSE \/ form.password = <<>> \/ form.github_pat = "" \/ form.anthropic_key = ""
         \/ Len(form.password) < MinPassword
         \/ verify.outcome = "not 200"
         \/ verify.outcome = "200" /\ ~HasRepoScope(verify)

\* C27: a failed login POST changes nothing: the response is the login
\* page, the session stays unauthenticated, the process-wide client and
\* credentials are unchanged, and no credentials file is written or
\* altered.
C27_FailedLogin ==
    [][\A b \in Browsers, form \in LoginForms, verify \in VerifyAnswers,
          again \in {Resp200({<<"repo">>}), NoResponse({})} :
          (/\ ~authenticated[b]
           /\ FailedLogin(form, verify)
           /\ Login(b, form, "salt1", verify, again))
          => /\ response' = LoginPage
             /\ ~authenticated'[b]
             /\ UNCHANGED <<github_client, credentials, credentials_file>>]_vars

\* C28: in every reachable state, a browser session whose authenticated
\* flag is set implies that the process-wide GitHub client and credentials
\* are present (non-None), across any interleaving of login, logout and
\* reset-credentials requests from one or several browser sessions.
C28_SessionImpliesClient ==
    \A b \in Browsers :
        authenticated[b] => (github_client # NoClient /\ credentials # NoClient)

\* What holds of it: a session's flag is set only with the client and the
\* credentials present, and the only step that takes them away from a
\* session whose flag stays set is the logout of another session.
ClientLostByOtherLogout ==
    [][\A b \in Browsers :
          /\ (~authenticated[b] /\ authenticated'[b])
                 => (github_client' # NoClient /\ credentials' # NoClient)
          /\ (/\ authenticated[b] /\ authenticated'[b]
              /\ github_client # NoClient
              /\ github_client' = NoClient \/ credentials' = NoClient)
                 => \E o \in Browsers \ {b} : Logout(o)]_vars

\* What holds of it: the same, when no scope of the token has "repo"
\* within its name.
FailedLoginNoRepoInScopes ==
    [][\A b \in Browsers, form \in LoginForms, verify \in VerifyAnswers,
          again \in {Resp200({<<"repo">>}), NoResponse({})} :
          (/\ ~authenticated[b]
           /\ FailedLogin(form, verify)
           /\ ~HasRepo(verify.body)
           /\ Login(b, form, "salt1", verify, again))
          => /\ response' = LoginPage
             /\ ~authenticated'[b]
             /\ UNCHANGED <<github_client, credentials, credentials_file>>]_vars


----------------------------------------------------------------------------
(* security.py called directly: any sequence of encrypt_credentials,       *)
(* decrypt_credentials, credentials_exist and delete_credentials calls.    *)

SecurityPasswords == {GoodPassword, OtherPassword, <<>>}
Tokens == {"ghp", "gho"}
ApiKeys == {"sk", "sk2"}

Encrypt(password, github_pat, anthropic_key, salt) ==
    /\ credentials_file' = encrypt_credentials(password, github_pat, anthropic_key, salt)
    /\ call_out' = [call |-> "encrypt_credentials", gave |-> NoScan]
    /\ UNCHANGED <<now, cvars, srvars, authvars, datavars, response>>

Decrypt(password) ==
    /\ call_out' = [call |-> "decrypt_credentials", password |-> password,
                    gave |-> decrypt_credentials(credentials_file, password)]
    /\ UNCHANGED <<now, cvars, srvars, authvars, datavars, response, credentials_file>>

Exist ==
    /\ call_out' = [call |-> "credentials_exist",
                    gave |-> credentials_exist(credentials_file)]
    /\ UNCHANGED <<now, cvars, srvars, authvars, datavars, response, credentials_file>>

Delete ==
    /\ credentials_file' = delete_credentials(credentials_file)
    /\ call_out' = [call |-> "delete_credentials", gave |-> NoScan]
    /\ UNCHANGED <<now, cvars, srvars, authvars, datavars, response>>

InitSecurity == InitAuth

NextSecurity ==
    \/ \E password \in SecurityPasswords, github_pat \in Tokens, anthropic_key \in ApiKeys,
          salt \in Salts : Encrypt(password, github_pat, anthropic_key, salt)
    \/ \E password \in SecurityPasswords : Decrypt(password)
    \/ Exist
    \/ Delete

SpecSecurity == InitSecurity /\ [][NextSecurity]_vars

\* what decrypt_credentials and credentials_exist give on the file as it
\* is after the step
DecryptsTo(password) == decrypt_credentials(credentials_file', password)

\* C18: after an encrypt_credentials call, and until the next encrypt or
\* delete, decrypt_credentials gives that call's (github_pat,
\* anthropic_key) under that call's password and None under any other, and
\* credentials_exist is true; after a delete_credentials call, and at the
\* start, decrypt_credentials gives None and credentials_exist is false;
\* decrypt_credentials and credentials_exist leave the file as it is.
C18_RoundTrip ==
    [][/\ \A password \in SecurityPasswords, github_pat \in Tokens,
             anthropic_key \in ApiKeys, salt \in Salts :
              Encrypt(password, github_pat, anthropic_key, salt) =>
                  /\ credentials_exist(credentials_file')
                  /\ \A p \in SecurityPasswords :
                         DecryptsTo(p) =
                             IF p = password
                             THEN [github_pat |-> github_pat, anthropic_key |-> anthropic_key]
                             ELSE NoScan
       /\ Delete =>
              /\ ~credentials_exist(credentials_file')
              /\ \A p \in SecurityPasswords : DecryptsTo(p) = NoScan
       /\ (Exist \/ \E p \in SecurityPasswords : Decrypt(p)) =>
              /\ credentials_file' = credentials_file
              /\ call_out'.call = "credentials_exist" =>
                     call_out'.gave = (credentials_file # NoFile)
              /\ call_out'.call = "decrypt_credentials" =>
                     call_out'.gave = DecryptsTo(call_out'.password)]_vars

\* a decrypt_credentials call has given the credentials of a file written
\* over an earlier one, under the empty password
C18_Witness ==
    /\ credentials_file # NoFile
    /\ credentials_file.salt = "salt2"
    /\ credentials_file.token.key = derive_key(<<>>, "salt2")
    /\ call_out = [call |-> "decrypt_credentials", password |-> <<>>,
                   gave |-> [github_pat |-> "gho", anthropic_key |-> "sk2"]]

----------------------------------------------------------------------------
(* Classification: the arguments are drawn at Init, the clock runs, and    *)
(* classify_branch is called on them any number of times.                  *)

InitClassify ==
    /\ now = ClockStart
    /\ comparison \in ClassifyComparisons
    /\ last_commit_date \in Dates
    /\ has_pr \in BOOLEAN
    /\ result = NotCalled
    /\ result_at = 0
    /\ ScanRepoUnused
    /\ AppStart

\* time passes
Tick ==
    /\ now < ClockEnd
    /\ now' = now + 1
    /\ UNCHANGED <<cvars, srvars, avars>>

Classify ==
    /\ result' = classify_branch(comparison, last_commit_date, has_pr)
    /\ result_at' = now
    /\ UNCHANGED <<now, comparison, last_commit_date, has_pr, srvars, avars>>

NextClassify == Tick \/ Classify

SpecClassify == InitClassify /\ [][NextClassify]_vars

----------------------------------------------------------------------------
(* Properties of classify_branch, under SpecClassify *)

Called == result # NotCalled
Ahead == Get(comparison, "ahead_by", 0)
Behind == Get(comparison, "behind_by", 0)

\* the date is a timestamp carrying a UTC designator or offset
HasInstant(d) == d.form = "iso" /\ d.tz \in {"Z", "+00:00"}

\* the date is null, malformed or lacks a UTC offset
Unusable(d) == ~HasInstant(d)

\* age of the last commit, in ticks, when classify_branch was called
AgeAtCall == result_at - last_commit_date.t
ThirtyDays == StaleDays * TicksPerDay

\* C1: with has_pr = true classify_branch returns ACTIVE PR, whatever the
\* comparison and the last-commit date are.
C1_ActivePr == (Called /\ has_pr) => result = "ACTIVE PR"

C1_Witness ==
    /\ Called /\ has_pr /\ result = "ACTIVE PR"
    /\ Ahead = 0 /\ Behind = 0
    /\ last_commit_date = Junk

\* C2: with has_pr = false and ahead_by = 0 classify_branch returns
\* SAFE TO DELETE, whatever behind_by and the last-commit date are.
C2_SafeToDelete == (Called /\ ~has_pr /\ Ahead = 0) => result = "SAFE TO DELETE"

C2_Witness ==
    /\ Called /\ ~has_pr /\ Ahead = 0 /\ Behind > 0
    /\ HasInstant(last_commit_date)
    /\ AgeAtCall > ThirtyDays + TicksPerDay
    /\ result = "SAFE TO DELETE"

\* C3: with has_pr = false, ahead_by > 0 and a last commit strictly more
\* than 30 days older than the current UTC time, classify_branch returns
\* STALE.
C3_Stale ==
    (/\ Called /\ ~has_pr /\ Ahead > 0
     /\ HasInstant(last_commit_date)
     /\ AgeAtCall > ThirtyDays)
    => result = "STALE"

\* C4 (as claimed): with has_pr = false, ahead_by > 0 and behind_by > 0
\* classify_branch returns DIVERGED.
C4_Original == (Called /\ ~has_pr /\ Ahead > 0 /\ Behind > 0) => result = "DIVERGED"

\* C4 (amended): with has_pr = false, ahead_by > 0 and behind_by > 0, and
\* a last commit within 30 days of now or a null, malformed or offset-less
\* last-commit date, classify_branch returns DIVERGED.
C4_Diverged ==
    (/\ Called /\ ~has_pr /\ Ahead > 0 /\ Behind > 0
     /\ \/ Unusable(last_commit_date)
        \/ AgeAtCall <= ThirtyDays)
    => result = "DIVERGED"

C4_Witness ==
    /\ Called /\ ~has_pr /\ Ahead > 0 /\ Behind > 0
    /\ HasInstant(last_commit_date)
    /\ AgeAtCall = ThirtyDays
    /\ result = "DIVERGED"

\* C5: with has_pr = false, ahead_by > 0, behind_by = 0 and a last commit
\* within 30 days of now, or no last-commit date, classify_branch returns
\* AHEAD ONLY.
C5_AheadOnly ==
    (/\ Called /\ ~has_pr /\ Ahead > 0 /\ Behind = 0
     /\ \/ last_commit_date = None
        \/ HasInstant(last_commit_date) /\ AgeAtCall <= ThirtyDays)
    => result = "AHEAD ONLY"

C5_Witness ==
    /\ Called /\ ~has_pr /\ Ahead > 0 /\ Behind = 0
    /\ HasInstant(last_commit_date)
    /\ AgeAtCall = ThirtyDays
    /\ result = "AHEAD ONLY"

\* what the rules other than the staleness rule give
RemainingRules ==
    IF has_pr THEN "ACTIVE PR"
    ELSE IF Ahead = 0 THEN "SAFE TO DELETE"
    ELSE IF Behind > 0 THEN "DIVERGED"
    ELSE "AHEAD ONLY"

\* C6: classify_branch never raises because of last_commit_date, and with
\* a null, malformed or offset-less date the staleness rule is skipped: the
\* result is what the remaining rules give.
C6_NeverRaises ==
    Called =>
        /\ result \in Labels
        /\ Unusable(last_commit_date) => result = RemainingRules

C6_Witness ==
    /\ Called /\ ~has_pr /\ Ahead > 0 /\ Behind = 0
    /\ last_commit_date.form = "iso" /\ last_commit_date.tz = ""
    /\ AgeAtCall > ThirtyDays + TicksPerDay
    /\ result = "AHEAD ONLY"

OverThirtyWholeDays(at) == (at - last_commit_date.t) \div TicksPerDay > StaleDays

----------------------------------------------------------------------------
(* models.py called directly: the analysis cache under any sequence of     *)
(* cache_analysis calls, the clock running.                                *)

\* repository names, branch names and head shas, as sequences of their
\* "/"-separated segments
CacheRepos == {Str("app")}
CacheBranches == {Str("dev"), <<"dev", "x">>}
CacheShas == {Str("abc"), <<"x", "abc">>}
Triples == CacheRepos \X CacheBranches \X CacheShas

Analyses == [summary : {"merge", "delete"}, cached_at : {0}]

CacheAnalysisCall(repo_name, branch_name, commit_sha, analysis) ==
    /\ analysis_cache' = cache_analysis(analysis_cache, repo_name, branch_name,
                                        commit_sha, analysis)
    /\ UNCHANGED <<now, cvars, srvars, authvars, scan_results, scan_history, action_log,
                   session_cost, preferences, credentials_file, response, call_out>>

InitCache ==
    /\ now = ClockStart
    /\ comparison = <<>> /\ last_commit_date = None /\ has_pr = FALSE
    /\ result = NotCalled /\ result_at = 0
    /\ ScanRepoUnused
    /\ AppStart

NextCache ==
    \/ Tick
    \/ \E t \in Triples, analysis \in Analyses : CacheAnalysisCall(t[1], t[2], t[3], analysis)

SpecCache == InitCache /\ [][NextCache]_vars

\* what get_cached_analysis gives for the triple t, before and after the step
Cached(t) == get_cached_analysis(analysis_cache, t[1], t[2], t[3])
CachedNext(t) == get_cached_analysis(analysis_cache', t[1], t[2], t[3])

\* a cache_analysis call for the triple t sets what is cached for t and
\* leaves what is cached for the triples of others as it was
KeyedAmong(others) ==
    \A t \in others, analysis \in Analyses :
        CacheAnalysisCall(t[1], t[2], t[3], analysis) =>
            /\ CachedNext(t) = [analysis EXCEPT !.cached_at = now]
            /\ \A u \in others \ {t} : CachedNext(u) = Cached(u)

\* C19: the analysis cache is keyed by the triple (repo name, branch name,
\* head sha): get_cached_analysis gives for a triple the analysis most
\* recently cached for exactly that triple, None when there is none, and a
\* cache_analysis call for one triple changes the entry of no other.
C19_KeyedByTriple == [][KeyedAmong(Triples)]_vars

\* The same holds among the triples whose head sha has no "/".
KeyedByTripleOfPlainShas == [][KeyedAmong({t \in Triples : Len(t[3]) = 1})]_vars

----------------------------------------------------------------------------
(* models.py called directly: the scan history under any sequence of       *)
(* save_scan and get_latest_scan calls.                                    *)

\* the scan data of the next save_scan call: the scans are numbered
NextScanData ==
    [id |-> IF scan_history = <<>> THEN 1 ELSE scan_history[Len(scan_history)].id + 1]

SaveScan(scan_data) ==
    /\ scan_data.id <= MaxSaves
    /\ scan_history' = save_scan(scan_history, [timestamp |-> now] @@ scan_data)
    /\ call_out' = [call |-> "save_scan", gave |-> NoScan]
    /\ UNCHANGED <<now, cvars, srvars, authvars, scan_results, analysis_cache, action_log,
                   session_cost, preferences, credentials_file, response>>

LatestScan ==
    /\ call_out' = [call |-> "get_latest_scan", gave |-> get_latest_scan(scan_history)]
    /\ UNCHANGED <<now, cvars, srvars, authvars, datavars, credentials_file, response>>

InitHistory == InitCache

NextHistory == SaveScan(NextScanData) \/ LatestScan

SpecHistory == InitHistory /\ [][NextHistory]_vars

\* C20: a save_scan call puts the scan, with a timestamp, behind the scans
\* held, which keep their order, and drops the oldest one when 50 are
\* held: the history holds at most 50 scans, the most recently saved ones
\* in save order; get_latest_scan gives the scan saved last, None when
\* none was saved.
C20_LastFifty ==
    [][/\ SaveScan(NextScanData) =>
              LET dropped == Len(scan_history) + 1 - Len(scan_history') IN
              /\ Len(scan_history') <= HistoryKeep
              /\ dropped = IF Len(scan_history) >= HistoryKeep THEN 1 ELSE 0
              /\ scan_history'[Len(scan_history')] = [timestamp |-> now] @@ NextScanData
              /\ \A i \in 1 .. Len(scan_history') - 1 :
                     scan_history'[i] = scan_history[i + dropped]
       /\ LatestScan =>
              /\ scan_history' = scan_history
              /\ call_out'.gave = IF scan_history = <<>> THEN NoScan
                                  ELSE scan_history[Len(scan_history)]]_vars

\* 52 scans were saved: the history holds the scans 3 to 52, and
\* get_latest_scan has given scan 52
C20_Witness ==
    /\ Len(scan_history) = HistoryKeep
    /\ scan_history[1].id = 3
    /\ call_out.call = "get_latest_scan"
    /\ call_out.gave # NoScan
    /\ call_out.gave.id = HistoryKeep + 2
    /\ "timestamp" \in DOMAIN call_out.gave

----------------------------------------------------------------------------
(* github_client.py called directly: one paginated listing after another,  *)
(* on any answers to the successive page requests.                         *)

\* what one page request is answered with
PageAnswers ==
    {Resp200(<<>>), Resp200(<<"i1">>), Resp200(<<"i2", "i3">>),
     RespNot200(<<>>), NoResponse(<<>>)}

PageSeqs == UNION {[1 .. n -> PageAnswers] : n \in 0 .. MaxPages}

ListingCall(listing, pages) ==
    /\ call_out' = [call |-> listing, pages |-> pages,
                    gave |-> CASE listing = "get_repos" -> get_repos(pages)
                               [] listing = "get_branches" -> get_branches(pages)
                               [] listing = "get_tags" -> get_tags(pages)]
    /\ UNCHANGED <<now, cvars, srvars, authvars, datavars, response, credentials_file>>

InitListing == InitCache

NextListing ==
    \E listing \in {"get_repos", "get_branches", "get_tags"}, pages \in PageSeqs :
        ListingCall(listing, pages)

SpecListing == InitListing /\ [][NextListing]_vars

\* the items of the pages, in order
RECURSIVE Items(_)
Items(pages) == IF pages = <<>> THEN <<>> ELSE Head(pages).body \o Items(Tail(pages))

\* the request for page k was made (every page before it was received with
\* items) and was answered with a non-success response
NonSuccessAt(pages, k) ==
    /\ pages[k].outcome = "not 200"
    /\ \A j \in 1 .. k - 1 : pages[j].outcome = "200" /\ pages[j].body # <<>>

\* C24: in the paginated listings (get_repos, get_branches, get_tags), a
\* non-success response on any page ends the pagination without raising,
\* and the listing returns exactly the concatenation, in order, of the
\* items of all pages received successfully before that page.
C24_NonSuccessEndsListing ==
    call_out # Pending =>
        \A k \in DOMAIN call_out.pages :
            NonSuccessAt(call_out.pages, k)
                => call_out.gave = Ok(Items(SubSeq(call_out.pages, 1, k - 1)))

C24_Witness ==
    /\ call_out # Pending
    /\ call_out.call = "get_tags"
    /\ call_out.pages = <<Resp200(<<"i1">>), Resp200(<<"i2", "i3">>), RespNot200(<<>>)>>
    /\ call_out.gave = Ok(<<"i1", "i2", "i3">>)

----------------------------------------------------------------------------
(* One POST /scan request followed call by call: the first scan request of *)
(* a signed-in session, each step being the handler's run up to its next   *)
(* request to GitHub.  Every listing gets an empty or non-success page     *)
(* once it has had MaxListPages pages with items.  A comparison answered   *)
(* 200 is well formed, and what the branch records hold is left out: the   *)
(* steps keep the count of records.                                        *)

\* the repository listed on page p of /user/repos
PagedRepos ==
    <<Alice, Bob,
      [owner |-> Str("alice"), name |-> Str("lib"), full_name |-> <<"alice", "lib">>],
      [owner |-> Str("bob"), name |-> Str("lib"), full_name |-> <<"bob", "lib">>]>>

\* what ends a listing: an empty page, a non-success response, no response
EndAnswers == {Resp200(<<>>), RespNot200(<<>>), NoResponse(<<>>)}

RepoPageAnswers(page) ==
    IF page <= MaxListPages THEN {Resp200(<<PagedRepos[page]>>)} \cup EndAnswers
    ELSE EndAnswers

\* the branch listed on page p of a repository's branches
PagedBranches == <<Str("main"), Str("dev"), Str("fix"), Str("old")>>

BranchPageAnswers(page) ==
    IF page <= MaxListPages THEN {Resp200(<<PagedBranches[page]>>)} \cup EndAnswers
    ELSE EndAnswers

\* what a single request (comparison, pull listing, CLAUDE.md) is answered with
CallAnswers == {Resp200(<<>>), RespNot200(<<>>), NoResponse(<<>>)}

\* the handler's run at line 144, about to call get_repos
RunStarted == [NoRun EXCEPT !.pc = "get_repos"]

\* what every step of the scan leaves alone
RunFrame ==
    UNCHANGED <<now, cvars, sr_in, sr_out, authvars, analysis_cache, session_cost,
                preferences, credentials_file, call_out>>

StepFrame == RunFrame /\ UNCHANGED <<scan_results, scan_history, action_log, response>>

\* scan, lines 134-142
ScanStart(b) ==
    /\ scan_run.pc = "idle"
    /\ scan_results = NoScan
    /\ authenticated[b] /\ github_client # NoClient
    /\ scan_run' = RunStarted
    /\ StepFrame

\* get_repos, lines 32-52: one page request.  A transport error leaves
\* get_repos and scan as an exception.
ScanGetRepos(resp) ==
    /\ scan_run.pc = "get_repos"
    /\ IF resp.outcome = "transport error"
       THEN /\ scan_run' = [scan_run EXCEPT !.pc = "aborted", !.returned = FALSE]
            /\ response' = ServerError
       ELSE /\ response' = response
            /\ IF resp.outcome # "200" \/ resp.body = <<>>
               THEN scan_run' = [scan_run EXCEPT !.pc = "next_repo", !.i = 1]
               ELSE scan_run' = [scan_run EXCEPT !.repos = @ \o resp.body,
                                                 !.page = @ + 1]
    /\ RunFrame /\ UNCHANGED <<scan_results, scan_history, action_log>>

\* scan, lines 146-149, and scan_repo, lines 192-196: the next repository
ScanNextRepo ==
    /\ scan_run.pc = "next_repo"
    /\ IF scan_run.i > Len(scan_run.repos)
       THEN scan_run' = [scan_run EXCEPT !.pc = "store"]
       ELSE LET repo == scan_run.repos[scan_run.i] IN
            IF repo.full_name \in preferences.excluded_repos
               \/ repo.name \in preferences.excluded_repos
            THEN scan_run' = [scan_run EXCEPT !.i = @ + 1]
            ELSE scan_run' = [scan_run EXCEPT !.pc = "get_branches", !.page = 1,
                                              !.branches = <<>>, !.j = 1,
                                              !.branch_data = 0,
                                              !.compares = 0, !.pulls = 0]
    /\ StepFrame

\* the calls made for the repository whose scan ends
CallsOfRepo(run) ==
    [full_name |-> run.repos[run.i].full_name,
     non_default |-> Cardinality({k \in DOMAIN run.branches :
                        run.branches[k] # Get(run.repos[run.i], "default_branch", Str("main"))}),
     compares |-> run.compares,
     pulls |-> run.pulls]

\* scan, lines 152-165: a call of scan_repo raised
RepoFailed(run) ==
    [run EXCEPT !.pc = "next_repo", !.i = @ + 1, !.returned = FALSE,
                !.results = Append(@, DegradedRecord(run.repos[run.i], "ConnectionError"))]

\* get_branches, lines 56-70: one page request
RepoGetBranches(resp) ==
    /\ scan_run.pc = "get_branches"
    /\ IF resp.outcome = "transport error"
       THEN scan_run' = RepoFailed(scan_run)
       ELSE IF resp.outcome # "200" \/ resp.body = <<>>
       THEN scan_run' = [scan_run EXCEPT !.pc = "get_pulls"]
       ELSE scan_run' = [scan_run EXCEPT !.branches = @ \o resp.body, !.page = @ + 1]
    /\ StepFrame

\* scan_repo, lines 197-200, and get_pulls: the one request of the listing
RepoGetPulls(resp) ==
    /\ scan_run.pc = "get_pulls"
    /\ LET asked == [scan_run EXCEPT !.pulls = @ + 1] IN
       IF resp.outcome = "transport error"
       THEN scan_run' = RepoFailed(asked)
       ELSE scan_run' = [asked EXCEPT !.pc = "next_branch", !.j = 1]
    /\ StepFrame

\* scan_repo, lines 201-204 and 255-257: the next branch of the listing
RepoNextBranch ==
    /\ scan_run.pc = "next_branch"
    /\ IF scan_run.j > Len(scan_run.branches)
       THEN scan_run' = [scan_run EXCEPT !.pc = "check_claude_md"]
       ELSE IF scan_run.branches[scan_run.j]
                  = Get(scan_run.repos[scan_run.i], "default_branch", Str("main"))
       THEN scan_run' = [scan_run EXCEPT !.j = @ + 1]
       ELSE scan_run' = [scan_run EXCEPT !.pc = "compare"]
    /\ StepFrame

\* (mutant) a comparison answered with a non-success response is asked again
RepoCompareRetrying(resp) ==
    /\ scan_run.pc = "compare"
    /\ LET asked == [scan_run EXCEPT !.compares = @ + 1] IN
       IF resp.outcome = "transport error"
       THEN scan_run' = RepoFailed(asked)
       ELSE IF resp.outcome # "200"
       THEN scan_run' = IF scan_run.compares < MaxBranches THEN asked
                        ELSE [asked EXCEPT !.pc = "next_branch", !.j = @ + 1]
       ELSE scan_run' = [asked EXCEPT !.pc = "next_branch", !.j = @ + 1,
                                      !.branch_data = @ + 1]
    /\ StepFrame

\* scan_repo, lines 206-253: the comparison request of one branch
RepoCompare(resp) ==
    /\ scan_run.pc = "compare"
    /\ LET asked == [scan_run EXCEPT !.compares = @ + 1] IN
       IF resp.outcome = "transport error"
       THEN scan_run' = RepoFailed(asked)
       ELSE IF resp.outcome # "200"
       THEN scan_run' = [asked EXCEPT !.pc = "next_branch", !.j = @ + 1]
       ELSE scan_run' = [asked EXCEPT !.pc = "next_branch", !.j = @ + 1,
                                      !.branch_data = @ + 1]
    /\ StepFrame

\* scan_repo, lines 259-273, and scan, line 151
RepoCheckClaudeMd(resp) ==
    /\ scan_run.pc = "check_claude_md"
    /\ IF resp.outcome = "transport error"
       THEN scan_run' = RepoFailed(scan_run)
       ELSE LET repo == scan_run.repos[scan_run.i] IN
            scan_run' =
                [scan_run EXCEPT
                    !.pc = "next_repo", !.i = @ + 1,
                    !.results = Append(@, [owner |-> repo.owner,
                                           name |-> repo.name,
                                           full_name |-> repo.full_name,
                                           branch_count |-> scan_run.branch_data,
                                           has_claude_md |-> resp.outcome = "200"]),
                    !.calls = Append(@, CallsOfRepo(scan_run))]
    /\ StepFrame

\* scan, lines 167-179
ScanStore ==
    /\ scan_run.pc = "store"
    /\ \E sorted \in {SortByCount(scan_run.results)} :
           StoreScan([timestamp |-> now] @@ Totals(sorted))
    /\ response' = RedirectDashboard
    /\ scan_run' = [scan_run EXCEPT !.pc = "done"]
    /\ RunFrame

InitRun == Init

NextRun ==
    \/ ScanStart(Owner)
    \/ \E resp \in RepoPageAnswers(scan_run.page) : ScanGetRepos(resp)
    \/ ScanNextRepo
    \/ \E resp \in BranchPageAnswers(scan_run.page) : RepoGetBranches(resp)
    \/ \E resp \in CallAnswers : RepoGetPulls(resp)
    \/ RepoNextBranch
    \/ \E resp \in CallAnswers : RepoCompare(resp)
    \/ \E resp \in CallAnswers : RepoCheckClaudeMd(resp)
    \/ ScanStore

\* the handler is one thread that runs on: a step that can be taken is taken
SpecRun == InitRun /\ [][NextRun]_vars /\ WF_vars(NextRun)

Running == scan_run.pc \notin {"idle", "done", "aborted"}

\* the request has stored its aggregate
Stored ==
    /\ scan_run.pc = "done"
    /\ scan_results # NoScan
    /\ scan_results.total_repos = Len(scan_run.results)
    /\ scan_history = <<scan_results>>
    /\ response = RedirectDashboard

\* one comparison per non-default branch and one pull-request listing per
\* repository scanned
OneCallEach ==
    /\ Len(scan_run.calls) = Len(scan_run.results)
    /\ \A k \in DOMAIN scan_run.calls :
           /\ scan_run.calls[k].pulls = 1
           /\ scan_run.calls[k].compares = scan_run.calls[k].non_default

=============================================================================
